---- MODULE Spec2Model ----
(***************************************************************************)
(* Model of the bridge SDK: the relay's event queue, the EventSource        *)
(* instances, the resource cell of a BridgeGateway, and the BridgeProvider  *)
(* with its connection loops.                                               *)
(*                                                                          *)
(* Scheduling: JavaScript runs one macrotask (a timer, an EventSource       *)
(* event, a block of user code) at a time and drains the microtask queue    *)
(* after it.  A task suspended at an await that settles in microtasks only  *)
(* (MicroPcs) carries the number of microtask turns left until it resumes;  *)
(* the task with the fewest turns left resumes first, the older one on a    *)
(* tie.  No timer and no network event is taken while such a task exists.   *)
(* User code calls the Provider from a macrotask of its own, several calls  *)
(* in a row if it does not await them.                                      *)
(***************************************************************************)
EXTENDS Integers, Sequences, FiniteSets, TLC

\* ------------------------------------------------------------- bounds
MaxES == 3          \* EventSource instances constructed in one run
MaxFrames == 2      \* frames the relay queues in one run
MaxInputs == 4      \* calls of the public API and frames sent in one run
MaxInputsResume == 5    \* the same, in a run of the resume scenario
MaxInputsDeadline == 3  \* the same, in a run with connecting deadlines
MaxAttempts == 5    \* the largest `attempts` a call of callForSuccess is given

\* ------------------------------------------------------------- values
Undefined == -1     \* an absent lastEventId
Null == 0           \* a null reference (gateway, resource, promise)

Sessions == {"s1", "s2"}        \* session ids of this peer
Peers == {"a1", "a2"}           \* session ids of the remote peers

VARIABLES
    maxInputs,      \* the bound on API calls and frames sent of this run
    loops,          \* two reconnect loops of one Provider, seen from their timers
    collector,      \* a BridgeEventsCollector and the batches it has sent
    retry,          \* a call of callForSuccess on its own: options, locals, position
    queue,          \* relay: the frames still queued, in id order
    nextId,         \* relay: the next event id
    es,             \* EventSource instances, by handle
    nes,            \* number of EventSource instances constructed
    ngw,            \* number of BridgeGateway instances constructed
    gws,            \* BridgeGateway instances: the fields and the resource cell
    tasks,          \* the async calls in flight
    heard,          \* the user listener's invocations, in order
    called,         \* invocations of errorListener / onConnecting
    ncalls,         \* number of API calls made
    clients,        \* BridgeProvider.clients
    lastEventId,    \* BridgeProvider.lastEventId
    abortController,\* BridgeProvider.abortController: the generation, Null if unset
    aborted,        \* the generations whose controller is aborted
    ngen,           \* number of generations created
    gateway,        \* BridgeProvider.gateway: a gateway id or Null
    closedUpTo,     \* of the last close() that returned: the handles constructed
                    \* when it was called
    closedAt,       \* of the last close() that returned: the generations created
                    \* when it was called (Undefined: no close() has returned)
    heartbeatReconnectIntervalMs,   \* TRUE if the Provider was given the interval
    heartbeatTimer, \* TRUE if this.heartbeatTimer names a pending timer
    timers,         \* number of pending watchdog timers
    stale,          \* TRUE if now - lastHeartbeatAt has reached the interval
    nextTickDelay,  \* the delay of the last scheduleNextTick(delayMs): "none"
                    \* (not called yet), "interval" or "interval / 2"
    missed          \* number of reconnects the watchdog has begun since the interval
                    \* was last reached

vars == <<maxInputs, loops, collector, retry, queue, nextId, es, nes, ngw, gws, tasks, heard, called, ncalls,
          clients, lastEventId, abortController, aborted, ngen, gateway, closedUpTo, closedAt,
          heartbeatReconnectIntervalMs, heartbeatTimer, timers, stale, nextTickDelay, missed>>

\* what belongs to the run, not to the Provider
runVars == <<maxInputs, loops, collector>>

relayVars == <<queue, nextId>>
watchdogVars == <<heartbeatReconnectIntervalMs, heartbeatTimer, timers, stale, nextTickDelay>>
providerVars == <<clients, lastEventId, abortController, aborted, ngen, gateway, closedUpTo, closedAt,
                  watchdogVars>>

Handles == 1..MaxES

\* the API calls made and the frames the relay was given
Inputs == ncalls + (nextId - 1)

\* ------------------------------------------------------------- helpers
SeqToSet(s) == {s[i] : i \in 1..Len(s)}

RECURSIVE SelectFirst(_, _, _)
\* the first element of s from index i on that is in S, or Null
SelectFirst(s, i, S) ==
    IF i > Len(s) THEN Null
    ELSE IF s[i] \in S THEN i
    ELSE SelectFirst(s, i + 1, S)

\* distinct(items): [...new Set(items)] keeps the first occurrence of each item
RECURSIVE distinct(_)
distinct(items) ==
    IF items = <<>> THEN <<>>
    ELSE LET rest == distinct(SubSeq(items, 1, Len(items) - 1))
             x == items[Len(items)]
         IN IF x \in SeqToSet(rest) THEN rest ELSE Append(rest, x)

\* ------------------------------------------------------------- abort signals
\* createAbortController(outer): a controller that aborts when outer fires.
\* A derived signal is named by the generation at the root of its chain
\* (Null: no outer signal, it never fires from outside).
createAbortController(outer) == outer

\* a signal that is never seen aborted
SignalNeverAborted(sig) == FALSE

\* signal.aborted
SignalAborted(sig) == sig # Null /\ sig \in aborted

\* ------------------------------------------------------------- EventSource
NoEs == [st |-> "unused", gw |-> Null, client_id |-> <<>>, last_event_id |-> Undefined,
         wasPreviouslyOpened |-> FALSE, promise |-> "none", root |-> Null,
         gen |-> Null, cursor |-> 0, got |-> <<>>, timedOut |-> FALSE]

IsLive(e) == e.st \in {"connecting", "open"}

\* a subscription URL whose last_event_id is one more than the lastEventId given
EventsUrlSkipsOne(sessionIds, leid) ==
    [client_id |-> sessionIds,
     last_event_id |-> IF leid # Undefined THEN leid + 1 ELSE Undefined]

\* a subscription URL that never carries last_event_id
EventsUrlWithoutLastEventId(sessionIds, leid) ==
    [client_id |-> sessionIds, last_event_id |-> Undefined]

\* the subscription URL: client_id is the comma-joined sessionIds,
\* last_event_id is appended only if lastEventId is set
EventsUrl(sessionIds, leid) ==
    [client_id |-> sessionIds,
     last_event_id |-> IF leid # Undefined THEN leid ELSE Undefined]

\* new EventSource(url) inside createEventSource, with its creation promise pending
NewEventSource(g, sessionIds, leid, sig) ==
    LET url == EventsUrl(sessionIds, leid)
    IN [st |-> "connecting", gw |-> g, client_id |-> url.client_id,
        last_event_id |-> url.last_event_id, wasPreviouslyOpened |-> FALSE,
        promise |-> "pending", root |-> sig, gen |-> Null, cursor |-> 0, got |-> <<>>,
        timedOut |-> FALSE]

\* eventSource.close()
CloseEs(E, h) ==
    IF h = Null THEN E
    ELSE [E EXCEPT ![h].st = IF IsLive(E[h]) THEN "closed" ELSE @]

\* the 'abort' listener createEventSource installs on config.signal:
\* eventSource.close(); reject(...)
AbortEs(E, h) ==
    IF h = Null THEN E
    ELSE [E EXCEPT ![h].st = IF IsLive(E[h]) THEN "closed" ELSE @,
                   ![h].promise = IF @ = "pending" THEN "rejected" ELSE @]

\* an abort of generation gen that reaches no EventSource
AbortNothing(E, gen) == E

\* AbortController.abort() of generation gen: every signal derived from it fires
AbortGeneration(E, gen) ==
    [h \in Handles |->
        IF gen # Null /\ E[h].st # "unused" /\ E[h].root = gen
        THEN AbortEs(E, h)[h] ELSE E[h]]

\* ------------------------------------------------------------- resource cell
NoGw == [owner |-> "none", sessionIds |-> <<>>, lastEventId |-> Undefined,
         currentResource |-> Null, currentPromise |-> Null, abortController |-> Null,
         disposed |-> "no"]

\* new BridgeGateway(bridgeUrl, sessionIds, listener, errorsListener, lastEventId)
NewGateway(owner, sessionIds, leid) ==
    [owner |-> owner, sessionIds |-> sessionIds, lastEventId |-> leid,
     currentResource |-> Null, currentPromise |-> Null, abortController |-> Null,
     disposed |-> "no"]

\* create(signal) that leaves the previous controller alone
CreateEsKeepsPrevious(E, G, g, h, sig) ==
    [E EXCEPT ![h] = NewEventSource(g, G[g].sessionIds, G[g].lastEventId,
                                    createAbortController(sig))]

\* create(signal), up to its await: abort the previous controller, make a new one
\* (named by the handle h this call constructs), start the factory
CreateEs(E, G, g, h, sig) ==
    [AbortEs(E, G[g].abortController) EXCEPT
        ![h] = NewEventSource(g, G[g].sessionIds, G[g].lastEventId,
                              createAbortController(sig))]

CreateGw(G, g, h) ==
    [G EXCEPT ![g].abortController = h, ![g].currentPromise = h]

\* a create() that does not keep the resource it made
CreateResumeGwForgets(G, g, h) == G

\* a create() that installs whatever its factory gave it
CreateResumeInstalls(G, g, h) == TRUE

\* create(signal), after `await promise` resolved with resource h
CreateResumeKeeps(G, g, h) == ~(G[g].currentPromise # h /\ h # G[g].currentResource)

CreateResumeEs(E, G, g, h) ==
    IF CreateResumeKeeps(G, g, h) THEN E ELSE CloseEs(E, h)

CreateResumeGw(G, g, h) ==
    IF CreateResumeKeeps(G, g, h) THEN [G EXCEPT ![g].currentResource = h] ELSE G

\* dispose() that forgets resource and promise and closes nothing
DisposeEsForgets(E, G, g) == E

\* dispose(): forget resource and promise, abort the controller, dispose the
\* resource (the awaited promise's result is the handle the abort has closed)
DisposeEs(E, G, g) ==
    CloseEs(AbortEs(E, G[g].abortController), G[g].currentResource)

DisposeGw(G, g) ==
    [G EXCEPT ![g].currentResource = Null, ![g].currentPromise = Null]

\* the microtask turns dispose() takes: `await promise` of a creation in flight
\* waits for the rejection to pass createEventSource and the factory (4 turns,
\* 1 if it is rejected already); a resolved promise takes one turn, and
\* Promise.allSettled two more
DisposeTurns(E, G, g) ==
    IF G[g].currentPromise = Null THEN 2
    ELSE IF E[G[g].currentPromise].promise = "pending" THEN 4
    ELSE IF E[G[g].currentPromise].promise = "rejected" THEN 1
    ELSE 3

\* BridgeGateway.close() awaited by closeGateway(): dispose(), its .catch, and
\* the two awaits
CloseTurns(E, G, g) == DisposeTurns(E, G, g) + 3

\* current()
Current(G, g) == G[g].currentResource

\* BridgeGateway.isReady / isClosed / isConnecting
GwIsReady(E, G, g) == Current(G, g) # Null /\ E[Current(G, g)].st = "open"
GwIsClosed(E, G, g) == ~(Current(G, g) # Null /\ E[Current(G, g)].st = "open")
GwIsConnecting(E, G, g) == Current(G, g) # Null /\ E[Current(G, g)].st = "connecting"

\* ------------------------------------------------------------- tasks
\* pcs at which a task waits for microtasks only
MicroPcs == {"closing", "nulled", "opened"}

Micro(t) == t.pc \in MicroPcs

Busy == \E t \in tasks : Micro(t)

\* user code is still in the block that made the calls in flight: no microtask
\* has run since
InSyncBlock == \A t \in tasks : Micro(t) => t.fresh

\* a new task gets the least id no task in flight has; left is the number of
\* microtask turns until it resumes, born the number of the API call that
\* started it (0 if a timer or an event did), since the number of generations
\* created when it started
NewTask(kind, pc, sig, h, left, born) ==
    [id |-> CHOOSE i \in 1..(Cardinality(tasks) + 1) : \A t \in tasks : t.id # i,
     kind |-> kind, pc |-> pc, sig |-> sig, h |-> h, left |-> left, born |-> born,
     fresh |-> (born # 0), since |-> ngen]

\* t is the task the microtask queue resumes next
Runs(t) ==
    /\ t \in tasks
    /\ Micro(t)
    /\ \A u \in tasks \ {t} :
          Micro(u) => (t.left < u.left \/ (t.left = u.left /\ t.born < u.born))

\* the other tasks when t resumes: t.left turns have passed
Advance(T, t) ==
    {IF Micro(u) THEN [u EXCEPT !.left = @ - t.left, !.fresh = FALSE] ELSE u : u \in T \ {t}}

\* t waiting for a timer or an event
Waiting(t, pc) == [t EXCEPT !.pc = pc, !.left = 0, !.born = 0, !.fresh = FALSE]

\* a task awaiting a creation promise that was rejected: registerSession throws.
\* A bare registerSession call ends, BridgeGateway.open closes its gateway and
\* ends; a connection loop (callForSuccess) catches the error and sleeps delayMs
\* before its next attempt.
Rejected(t, E) == t.pc = "registering" /\ E[t.h].promise = "rejected"

\* a rejected registration that nobody retries
AfterRejectGivesUp(T, E) == {t \in T : ~Rejected(t, E)}

AfterReject(T, E) ==
    {t \in T : ~Rejected(t, E)}
    \cup {Waiting(t, "sleeping")
            : t \in {u \in T : Rejected(u, E) /\ u.kind \notin {"register", "open"}}}

\* BridgeGateway.open, its catch: `await bridgeGateway.close()` of the gateways
\* whose registration was rejected; open throws, so nobody gets the gateway
OpenCatch(G, T, E) ==
    [g \in Handles |->
        IF \E t \in T : t.kind = "open" /\ Rejected(t, E) /\ E[t.h].gw = g
        THEN [DisposeGw(G, g)[g] EXCEPT !.owner = "lost"] ELSE G[g]]

\* ------------------------------------------------------------- relay
\* POST /message?client_id=from&to=receiver: the relay gives the frame the next
\* event id and queues it
Frame(id, from, to, message) == [id |-> id, from |-> from, to |-> to, message |-> message]

RelayPost(from, to, message) ==
    /\ queue' = Append(queue, Frame(nextId, from, to, message))
    /\ nextId' = nextId + 1

\* the frames a subscription is entitled to: addressed to one of its client ids
\* and, if it gave a last_event_id, with a greater event id
Eligible(f, e) ==
    /\ f.to \in SeqToSet(e.client_id)
    /\ (e.last_event_id = Undefined \/ f.id > e.last_event_id)

\* index in the queue of the frame the relay sends next on subscription e, or Null
RelayNext(e) ==
    SelectFirst(queue, 1, {f \in SeqToSet(queue) : Eligible(f, e) /\ f.id > e.cursor})

\* session.encrypt(JSON.stringify(message), receiver public key): an authenticated
\* box only the receiver opens, and only for the sender's key
Encrypt(plain, sender, receiver) == [plain |-> plain, by |-> sender, for |-> receiver]

CanDecrypt(message, session, sender) == message.for = session /\ message.by = sender

\* the n-th message the peers send
MessageNo(n) == [method |-> "sendTransaction", id |-> n]

\* the data of a frame that is not JSON: a value apart from every message a
\* peer sends
NotJson == [plain |-> [method |-> "not json", id |-> 0], by |-> "nobody", for |-> "nobody"]

\* the relay sends the subscribers of `to` a frame whose data JSON.parse rejects
GarbledFrame(from, to) ==
    /\ ~Busy
    /\ nextId <= MaxFrames
    /\ Inputs < maxInputs
    /\ RelayPost(from, to, NotJson)
    /\ UNCHANGED <<runVars, retry, missed, es, nes, ngw, gws, tasks, heard, called, ncalls, providerVars>>

\* Provider.send of a remote peer, one successful POST: the n-th message sent
\* carries the text n
Send(from, to) ==
    /\ ~Busy
    /\ nextId <= MaxFrames
    /\ Inputs < maxInputs
    /\ RelayPost(from, to, Encrypt(MessageNo(nextId), from, to))
    /\ UNCHANGED <<runVars, retry, missed, es, nes, ngw, gws, tasks, heard, called, ncalls, providerVars>>

\* ------------------------------------------------------------- provider
NoSession == "none"

SessionIdsOf(cs) == [i \in 1..Len(cs) |-> cs[i].sessionId]

\* getCryptoSession(clientSessionId): the session of the first client whose
\* clientId is the given id; NoSession stands for the throw
getCryptoSession(clientSessionId) ==
    LET i == SelectFirst(clients, 1, {c \in SeqToSet(clients) : c.clientId = clientSessionId})
    IN IF i = Null THEN NoSession ELSE clients[i].sessionId

\* the record of one callback invocation: old tells that the event which led to
\* it came from a handle h that existed when the last close() returned (h is
\* Null if no event did), gen the generation that was current
Callback(cb, h) ==
    [cb |-> cb, old |-> (h # Null /\ h <= closedUpTo), gen |-> abortController]

\* the listener invoked before everything it has heard so far
ListenerCallFirst(h, f, request, session) ==
    <<[h |-> h, lastEventId |-> f.id, from |-> f.from, body |-> request,
       session |-> session, old |-> (h <= closedUpTo), gen |-> abortController,
       cancelled |-> (es[h].gen # Null /\ es[h].gen \in aborted)]>> \o heard

\* this.listener?.({lastEventId, ...request, from}): the invocation is recorded
\* with the handle h the frame came on, the session that decrypted it, and
\* whether h is older than the last close() / belongs to a cancelled generation
ListenerCall(h, f, request, session) ==
    Append(heard, [h |-> h, lastEventId |-> f.id, from |-> f.from, body |-> request,
                   session |-> session,
                   old |-> (h <= closedUpTo), gen |-> abortController,
                   cancelled |-> (es[h].gen # Null /\ es[h].gen \in aborted)])

\* a gatewayListener that hands the frame to the listener whether or not the
\* session decrypts it
gatewayListenerUnchecked(h, f) ==
    LET sessionCrypto == getCryptoSession(f.from)
    IN /\ lastEventId' = f.id
       /\ heard' = ListenerCall(h, f, f.message.plain, sessionCrypto)
       /\ UNCHANGED called

\* gatewayListener(e) for a frame f that is no heartbeat, received on handle h:
\* parse e.data (a failure goes to errorListener), look the session up by
\* `from`, decrypt, store the event id, call the listener.  A throw of
\* getCryptoSession or decrypt rejects the async handler's promise, which
\* nobody awaits.
gatewayListener(h, f) ==
    LET sessionCrypto == getCryptoSession(f.from)
    IN IF f.message = NotJson
       THEN /\ called' = called \cup {Callback("errorListener", h)}
            /\ UNCHANGED <<lastEventId, heard>>
       ELSE IF sessionCrypto # NoSession /\ CanDecrypt(f.message, sessionCrypto, f.from)
            THEN /\ lastEventId' = f.id
                 /\ heard' = ListenerCall(h, f, f.message.plain, sessionCrypto)
                 /\ UNCHANGED called
            ELSE UNCHANGED <<lastEventId, heard, called>>

\* startHeartbeatWatcher(outerSignal)
startHeartbeatWatcher ==
    IF heartbeatReconnectIntervalMs
    THEN /\ timers' = (IF heartbeatTimer THEN timers - 1 ELSE timers) + 1
         /\ heartbeatTimer' = TRUE
         /\ stale' = FALSE
         /\ nextTickDelay' = "interval"
    ELSE UNCHANGED <<timers, heartbeatTimer, stale, nextTickDelay>>

\* stopHeartbeatWatcher()
stopHeartbeatWatcher ==
    /\ timers' = IF heartbeatTimer THEN timers - 1 ELSE timers
    /\ heartbeatTimer' = FALSE
    /\ UNCHANGED nextTickDelay

\* openGateway from `this.gateway = new BridgeGateway(...)` to the await of
\* registerSession, run by task t on the state (E, G, T) with the Provider's
\* clients cs and lastEventId leid
OpenGatewayCreate(t, E, G, T, cs, leid, gen) ==
    LET g == ngw + 1
        h == nes + 1
        G1 == [G EXCEPT ![g] = NewGateway("provider", distinct(SessionIdsOf(cs)), leid)]
    IN /\ nes < MaxES
       /\ ngw' = g
       /\ nes' = h
       /\ gateway' = g
       /\ gws' = CreateGw(G1, g, h)
       /\ es' = [CreateEs(E, G1, g, h, t.sig) EXCEPT ![h].gen = gen]
       /\ called' = called \cup {Callback("onConnecting", Null)}
       /\ tasks' = (T \ {t}) \cup {[Waiting(t, "registering") EXCEPT !.h = h]}

\* closeGateway() up to its await, when this.gateway is set: gateway.close()
CloseGatewayEs(E, G) == DisposeEs(E, G, gateway)

\* a gateway.close() that leaves the resource cell as it is
CloseGatewayGwKeeps(G) == G

CloseGatewayGw(G) == DisposeGw(G, gateway)

\* the comparison `signal?.aborted` of the EventSource handlers: `signal` is read
\* from deferOptions, which timeout() builds with the keys `timeout` and `abort`
DeferSignalAborted(h) == FALSE

\* ------------------------------------------------------------- API calls
Client(sessionId, clientId) == [sessionId |-> sessionId, clientId |-> clientId]

ClientInputs == {<<Client("s1", "a1")>>, <<Client("s1", "a1"), Client("s2", "a2")>>}

\* the client lists a caller passes: those, or none
ClientsOrNone == ClientInputs \cup {<<>>}

\* the two clients in the other order
ReorderedClients == <<Client("s2", "a2"), Client("s1", "a1")>>

\* the client lists updateClients is given
UpdateInputs == ClientsOrNone \cup {ReorderedClients}

\* the lastEventId option: absent, or the id of the first frame
LeidInputs == {Undefined, 1}

\* a comparison of the two lists item by item
equalsInOrder(itemsA, itemsB) == itemsA = itemsB

\* equalsDistinct(itemsA, itemsB)
equalsDistinct(itemsA, itemsB) == SeqToSet(itemsA) = SeqToSet(itemsB)

\* `await this.closeGateway()` of a new call chain, up to the await: with a
\* gateway it waits for gateway.close(), without one for a single turn.  E0 is
\* the EventSource state when the chain began, E the state it has reached.
closeGateway(E0, E, kind, sig, h, born) ==
    IF gateway # Null
    THEN /\ es' = CloseGatewayEs(E, gws)
         /\ gws' = CloseGatewayGw(gws)
         /\ tasks' = AfterReject(tasks, es')
                \cup {NewTask(kind, "closing", sig, h, CloseTurns(E0, gws, gateway), born)}
    ELSE /\ es' = E
         /\ gws' = gws
         /\ tasks' = AfterReject(tasks, E) \cup {NewTask(kind, "nulled", sig, h, 1, born)}

\* `await this.closeGateway()` of openGateway when this.gateway is set, for the
\* task t that is running
closeGatewayAgain(t, T) ==
    /\ es' = CloseGatewayEs(es, gws)
    /\ gws' = CloseGatewayGw(gws)
    /\ tasks' = (AfterReject(T, es') \ {t})
           \cup {[t EXCEPT !.pc = "closing", !.left = CloseTurns(es, gws, gateway),
                           !.born = 0, !.fresh = FALSE]}

\* restoreConnection(clients, {lastEventId}) with clients not empty, up to the
\* first await inside reconnect
restoreConnection(cs, leid) ==
    LET gen == ngen + 1
    IN /\ nes < MaxES
       /\ clients' = cs
       /\ lastEventId' = leid
       /\ ngen' = gen
       /\ aborted' = IF abortController = Null THEN aborted ELSE aborted \cup {abortController}
       /\ abortController' = gen
       /\ closeGateway(es, AbortGeneration(es, abortController), "restore",
                       createAbortController(gen), Null, ncalls + 1)
       /\ UNCHANGED <<runVars, retry, missed, relayVars, nes, ngw, gateway, heard, called, closedUpTo, closedAt,
                      watchdogVars>>

\* restoreConnection(clients, options): with no clients it logs and returns
RestoreConnection(cs, leid) ==
    /\ InSyncBlock
    /\ Inputs < maxInputs
    /\ ncalls' = ncalls + 1
    /\ IF cs = <<>>
       THEN UNCHANGED <<runVars, retry, missed, relayVars, es, nes, ngw, gws, tasks, heard, called, providerVars>>
       ELSE restoreConnection(cs, leid)

\* updateClients(clients): nothing if the session ids are the same set, else
\* this.clients = clients and restoreConnection(clients, {...this.connectionOptions,
\* signal}), which returns at once if clients is empty
UpdateClients(cs) ==
    /\ InSyncBlock
    /\ Inputs < maxInputs
    /\ ncalls' = ncalls + 1
    /\ IF equalsDistinct(SessionIdsOf(clients), SessionIdsOf(cs))
       THEN UNCHANGED <<runVars, retry, missed, relayVars, es, nes, ngw, gws, tasks, heard, called, providerVars>>
       ELSE IF cs = <<>>
            THEN /\ clients' = cs
                 /\ UNCHANGED <<runVars, retry, missed, relayVars, es, nes, ngw, gws, tasks, heard, called,
                                lastEventId, abortController, aborted, ngen, gateway,
                                closedUpTo, closedAt, watchdogVars>>
            ELSE restoreConnection(cs, Undefined)

\* close() after `await this.closeGateway()`; upTo is the number of handles
\* constructed and since the number of generations created when close() was
\* called
closeFinish(upTo, since) ==
    /\ stopHeartbeatWatcher
    /\ lastEventId' = Undefined
    /\ clients' = <<>>
    /\ closedUpTo' = upTo
    /\ closedAt' = since

\* close(), up to the await of closeGateway
Close ==
    /\ InSyncBlock
    /\ Inputs < maxInputs
    /\ ncalls' = ncalls + 1
    /\ closeGateway(es, es, "close", Null, nes, ncalls + 1)
    /\ UNCHANGED <<runVars, retry, missed, relayVars, nes, ngw, heard, called, providerVars>>

\* ------------------------------------------------------------- microtask steps
\* closeGateway() after `await this.gateway.close()`: this.gateway = null; its
\* caller resumes one turn later
CloseGatewayResume(t) ==
    /\ Runs(t)
    /\ t.pc = "closing"
    /\ gateway' = Null
    /\ tasks' = Advance(tasks, t) \cup {[t EXCEPT !.pc = "nulled", !.left = 1, !.fresh = FALSE]}
    /\ UNCHANGED <<runVars, retry, missed, relayVars, es, nes, ngw, gws, heard, called, ncalls, clients, lastEventId,
                   abortController, aborted, ngen, closedUpTo, closedAt, watchdogVars>>

\* the caller of closeGateway() after its await: close() clears the fields;
\* reconnect and openGateway return if their signal is aborted and otherwise go
\* on to the new gateway
CloseGatewayCaller(t) ==
    /\ Runs(t)
    /\ t.pc = "nulled"
    /\ IF t.kind = "close"
       THEN /\ closeFinish(t.h, t.since)
            /\ tasks' = Advance(tasks, t)
            /\ UNCHANGED <<es, nes, ngw, gws, gateway, called>>
       ELSE /\ IF SignalAborted(t.sig)
               THEN /\ tasks' = Advance(tasks, t)
                    /\ UNCHANGED <<es, nes, ngw, gws, gateway, called>>
               ELSE IF gateway # Null
                    THEN /\ closeGatewayAgain(t, Advance(tasks, t) \cup {t})
                         /\ UNCHANGED <<nes, ngw, gateway, called>>
                    ELSE OpenGatewayCreate(t, es, gws, Advance(tasks, t) \cup {t}, clients,
                                           lastEventId, abortController)
            /\ UNCHANGED <<clients, lastEventId, closedUpTo, closedAt, heartbeatTimer, timers, nextTickDelay>>
    /\ UNCHANGED <<runVars, retry, missed, relayVars, heard, ncalls, abortController, aborted, ngen,
                   heartbeatReconnectIntervalMs, stale>>

\* create() after `await promise` resolved, and the return through
\* registerSession, openGateway, callForSuccess and reconnect; restoreConnection
\* then arms the watchdog unless its signal is aborted
OpenedResume(t) ==
    /\ Runs(t)
    /\ t.pc = "opened"
    /\ LET g == es[t.h].gw
       IN /\ es' = CreateResumeEs(es, gws, g, t.h)
          /\ gws' = [CreateResumeGw(gws, g, t.h) EXCEPT
                        ![g].owner = IF t.kind = "open" THEN "user" ELSE @]
          /\ IF CreateResumeKeeps(gws, g, t.h)
             THEN /\ tasks' = Advance(tasks, t)
                  /\ IF t.kind = "restore" /\ ~SignalAborted(t.sig)
                     THEN startHeartbeatWatcher
                     ELSE UNCHANGED <<timers, heartbeatTimer, stale, nextTickDelay>>
             ELSE /\ tasks' = Advance(tasks, t) \cup
                        (IF t.kind \in {"register", "open"} THEN {} ELSE {Waiting(t, "sleeping")})
                  /\ UNCHANGED <<timers, heartbeatTimer, stale, nextTickDelay>>
    /\ UNCHANGED <<runVars, retry, missed, relayVars, nes, ngw, heard, called, ncalls, clients, lastEventId,
                   abortController, aborted, ngen, gateway, closedUpTo, closedAt,
                   heartbeatReconnectIntervalMs>>

\* ------------------------------------------------------------- timers
\* callForSuccess after `await delay(delayMs)`: the next turn of its loop.  An
\* aborted signal makes it throw (the watchdog's tick reports that to
\* errorListener); otherwise fn runs openGateway, which closes an existing
\* gateway first.
RetryWake(t) ==
    /\ ~Busy
    /\ t \in tasks
    /\ t.pc = "sleeping"
    /\ IF SignalAborted(t.sig)
       THEN /\ tasks' = tasks \ {t}
            /\ called' = IF t.kind = "wd" THEN called \cup {Callback("errorListener", Null)}
                         ELSE called
            /\ UNCHANGED <<es, nes, ngw, gws, gateway>>
       ELSE IF gateway # Null
            THEN /\ nes < MaxES
                 /\ closeGatewayAgain(t, tasks)
                 /\ UNCHANGED <<nes, ngw, gateway, called>>
            ELSE OpenGatewayCreate(t, es, gws, tasks, clients, lastEventId, abortController)
    /\ UNCHANGED <<runVars, retry, missed, relayVars, heard, ncalls, clients, lastEventId, abortController,
                   aborted, ngen, closedUpTo, closedAt, watchdogVars>>

\* a recheck that never finds the heartbeat recovered
ElapsedAfterDelayNeverWithin == FALSE

\* `elapsed < this.heartbeatReconnectIntervalMs` of the tick
ElapsedUnderInterval == ~stale

\* `elapsedAfterDelay <= this.heartbeatReconnectIntervalMs` of the tick after its
\* grace delay: lastHeartbeatAt has moved only if a heartbeat was handled
ElapsedAfterDelayWithinInterval == ~stale

\* the signal the caller passes in options.signal, named apart from the
\* generations
OuterSignal == -2

\* the watchdog's tick, of a watchdog armed by startHeartbeatWatcher(outerSignal):
\* with its signal aborted it stops the watcher; under the interval it schedules
\* the next tick, else it starts the grace delay.  ref tells whether the timer
\* that fired is the one this.heartbeatTimer names.
HeartbeatTickOf(ref, outerSignal) ==
    /\ ~Busy
    /\ IF ref THEN heartbeatTimer ELSE timers > (IF heartbeatTimer THEN 1 ELSE 0)
    /\ IF SignalAborted(createAbortController(outerSignal))
       THEN /\ heartbeatTimer' = FALSE
            /\ timers' = timers - 1 - (IF heartbeatTimer /\ ~ref THEN 1 ELSE 0)
            /\ UNCHANGED <<nextTickDelay, tasks>>
       ELSE IF ElapsedUnderInterval
            THEN /\ heartbeatTimer' = TRUE
                 /\ nextTickDelay' = "interval / 2"
                 /\ UNCHANGED <<timers, tasks>>
            ELSE /\ heartbeatTimer' = (heartbeatTimer /\ ~ref)
                 /\ timers' = timers - 1
                 /\ UNCHANGED nextTickDelay
                 /\ tasks' = tasks \cup {NewTask("wd", "grace", createAbortController(outerSignal),
                                                 Null, 0, 0)}
    /\ UNCHANGED <<runVars, retry, missed, relayVars, es, nes, ngw, gws, heard, called, ncalls, clients, lastEventId,
                   abortController, aborted, ngen, gateway, closedUpTo, closedAt,
                   heartbeatReconnectIntervalMs, stale>>

\* the tick of a watchdog armed without a caller's signal
HeartbeatTick(ref) == HeartbeatTickOf(ref, Null)

\* the tick after `await delay(this.missedHeartbeatDelay)`: a heartbeat that
\* came in the meantime reschedules the tick, else reconnect(signal)
GraceWake(t) ==
    /\ ~Busy
    /\ t \in tasks
    /\ t.pc = "grace"
    /\ IF ElapsedAfterDelayWithinInterval
       THEN /\ heartbeatTimer' = TRUE
            /\ timers' = timers + 1
            /\ nextTickDelay' = "interval / 2"
            /\ tasks' = tasks \ {t}
            /\ UNCHANGED <<es, gws, missed>>
       ELSE /\ missed' = missed + 1
            /\ IF gateway # Null
               THEN closeGatewayAgain(t, tasks)
               ELSE /\ tasks' = (tasks \ {t}) \cup {[t EXCEPT !.pc = "nulled", !.left = 1]}
                    /\ UNCHANGED <<es, gws>>
            /\ UNCHANGED <<heartbeatTimer, timers, nextTickDelay>>
    /\ UNCHANGED <<runVars, retry, relayVars, nes, ngw, gateway, heard, called, ncalls, clients, lastEventId,
                   abortController, aborted, ngen, closedUpTo, closedAt,
                   heartbeatReconnectIntervalMs, stale>>

\* time goes by without a heartbeat until the interval is reached
TimePasses ==
    /\ ~Busy
    /\ heartbeatReconnectIntervalMs
    /\ ~stale
    /\ stale' = TRUE
    /\ missed' = 0
    /\ UNCHANGED <<runVars, retry, relayVars, es, nes, ngw, gws, tasks, heard, called, ncalls, clients,
                   lastEventId, abortController, aborted, ngen, gateway, closedUpTo, closedAt,
                   heartbeatReconnectIntervalMs, heartbeatTimer, timers, nextTickDelay>>

\* ------------------------------------------------------------- EventSource events
\* eventSource.onopen: resolve(eventSource) reaches create() four turns later,
\* through timeout, createEventSource and the factory
EsOpen(h) ==
    /\ ~Busy
    /\ es[h].st = "connecting"
    /\ IF DeferSignalAborted(h)
       THEN /\ es' = AbortEs(es, h)
            /\ tasks' = AfterReject(tasks, es')
       ELSE /\ es' = [es EXCEPT ![h].st = "open", ![h].wasPreviouslyOpened = TRUE,
                                ![h].promise = "resolved"]
            /\ tasks' = {IF t.pc = "registering" /\ t.h = h
                         THEN [t EXCEPT !.pc = "opened", !.left = 4] ELSE t : t \in tasks}
    /\ UNCHANGED <<runVars, retry, missed, relayVars, nes, ngw, gws, heard, called, ncalls, providerVars>>

\* a gatewayErrorsListener that only reports the error
gatewayErrorsListenerReports(h, E) ==
    /\ called' = called \cup {Callback("errorListener", h)}
    /\ es' = E
    /\ UNCHANGED <<gws, tasks>>

\* gatewayErrorsListener(e) for an error of handle h, on the EventSource state E:
\* with this.gateway closed or connecting it calls onConnecting and reconnect,
\* which first awaits closeGateway()
gatewayErrorsListener(h, E) ==
    IF gateway # Null /\ (GwIsClosed(E, gws, gateway) \/ GwIsConnecting(E, gws, gateway))
    THEN /\ nes < MaxES
         /\ called' = called \cup {Callback("onConnecting", h)}
         /\ es' = CloseGatewayEs(E, gws)
         /\ gws' = CloseGatewayGw(gws)
         /\ tasks' = AfterReject(tasks, es')
                \cup {NewTask("errh", "closing", createAbortController(abortController), Null,
                              CloseTurns(E, gws, gateway), 0)}
    ELSE /\ called' = called \cup {Callback("errorListener", h)}
         /\ es' = E
         /\ UNCHANGED <<gws, tasks>>

\* eventSource.onerror
EsError(h) ==
    /\ ~Busy
    /\ IsLive(es[h])
    /\ IF DeferSignalAborted(h) \/ ~es[h].wasPreviouslyOpened
       THEN /\ es' = AbortEs(es, h)
            /\ tasks' = AfterReject(tasks, es')
            /\ gws' = OpenCatch(gws, tasks, es')
            /\ UNCHANGED called
       ELSE IF gws[es[h].gw].owner = "provider"
            THEN gatewayErrorsListener(h, CloseEs(es, h))
            ELSE /\ es' = CloseEs(es, h)
                 /\ called' = called \cup {Callback("errorListener", h)}
                 /\ UNCHANGED <<gws, tasks>>
    /\ UNCHANGED <<runVars, retry, missed, relayVars, nes, ngw, heard, ncalls, providerVars>>

\* eventSource.onmessage for the next frame the relay sends on handle h
Deliver(h) ==
    /\ ~Busy
    /\ es[h].st = "open"
    /\ RelayNext(es[h]) # Null
    /\ LET f == queue[RelayNext(es[h])]
       IN /\ es' = [es EXCEPT ![h].cursor = f.id, ![h].got = Append(@, f.id)]
          /\ IF DeferSignalAborted(h)
             THEN UNCHANGED <<lastEventId, heard, called>>
             ELSE IF gws[es[h].gw].owner = "provider"
                  THEN gatewayListener(h, f)
                  ELSE /\ heard' = ListenerCall(h, f, f.message, NoSession)
                       /\ UNCHANGED <<lastEventId, called>>
    /\ UNCHANGED <<runVars, retry, missed, relayVars, nes, ngw, gws, tasks, ncalls, clients,
                   abortController, aborted, ngen, gateway, closedUpTo, closedAt, watchdogVars>>

\* a heartbeat handled as a message would be: its event id, which is empty, is
\* stored
gatewayListenerStoresHeartbeatId(h) ==
    /\ stale' = FALSE
    /\ lastEventId' = Undefined
    /\ UNCHANGED heard

\* gatewayListener(e) for a frame whose data is "heartbeat", received on handle
\* h: lastHeartbeatAt = Date.now(), and return
gatewayListenerHeartbeat(h) ==
    /\ stale' = FALSE
    /\ UNCHANGED <<lastEventId, heard>>

\* a frame whose data is "heartbeat" (one that comes before the interval has
\* passed leaves `stale` as it is)
Heartbeat(h) ==
    /\ ~Busy
    /\ es[h].st = "open"
    /\ gws[es[h].gw].owner = "provider"
    /\ stale
    /\ gatewayListenerHeartbeat(h)
    /\ UNCHANGED <<runVars, retry, missed, relayVars, es, nes, ngw, gws, tasks, called, ncalls, clients,
                   abortController, aborted, ngen, gateway, closedUpTo, closedAt,
                   heartbeatReconnectIntervalMs, heartbeatTimer, timers, nextTickDelay>>

\* ------------------------------------------------------------- retry engine
DefaultDelayMs == 100                   \* `delayMs = 100` of callForSuccess
defaultRetryDelayMs == 1000             \* BridgeProvider.defaultRetryDelayMs
defaultMaxExponentialDelayMS == 7000    \* BridgeProvider.defaultMaxExponentialDelayMS

\* no result yet; the result of a call: the value of invocation `of`, the error
\* of invocation `of`, or the cancellation error thrown after `of` attempts
NoResult == [kind |-> "none", of |-> Null]
Value(k) == [kind |-> "value", of |-> k]
ErrorOf(k) == [kind |-> "error", of |-> k]
AbortedAfter(i) == [kind |-> "aborted", of |-> i]

\* callForSuccess(fn, {signal, attempts, delayMs, exponential, maxDelayMs})
\* before it runs: the options as given, nothing invoked, nothing slept
CallForSuccessArgs(attempts, delayMs, exponential, maxDelayMs) ==
    [options |-> [attempts |-> attempts, delayMs |-> delayMs,
                  exponential |-> exponential, maxDelayMs |-> maxDelayMs],
     pc |-> "idle", i |-> 0, delayMs |-> delayMs, lastError |-> Null, aborted |-> FALSE,
     calls |-> 0, outcomes |-> <<>>, slept |-> <<>>, result |-> NoResult]

\* a loop that makes one turn more
WhileConditionInclusive(i, attempts) == i <= attempts

\* `while (i < attempts)`
WhileCondition(i, attempts) == i < attempts

\* one turn of the loop from its top to the next await: the loop ends with
\* `throw lastError`, or the aborted signal makes it throw, or fn is invoked
Iterate(r) ==
    IF WhileCondition(r.i, r.options.attempts)
    THEN IF r.aborted
         THEN [r EXCEPT !.pc = "done", !.result = AbortedAfter(r.i)]
         ELSE [r EXCEPT !.pc = "calling", !.calls = @ + 1]
    ELSE [r EXCEPT !.pc = "done", !.result = ErrorOf(r.lastError)]

\* no call of callForSuccess on its own is made
NoRetry == CallForSuccessArgs(1, DefaultDelayMs, FALSE, Undefined)

\* the other variables, which the retry engine on its own leaves alone
connectionVars == <<runVars, missed, relayVars, es, nes, ngw, gws, tasks, heard, called,
                    ncalls, providerVars>>

\* callForSuccess is called: the first turn of the loop
CallForSuccess ==
    /\ retry.pc = "idle"
    /\ retry' = Iterate(retry)
    /\ UNCHANGED connectionVars

\* `return await fn({ signal })`: the invocation resolves
FnResolves ==
    /\ retry.pc = "calling"
    /\ retry' = [retry EXCEPT !.pc = "done", !.outcomes = Append(@, "ok"),
                              !.result = Value(retry.calls)]
    /\ UNCHANGED connectionVars

\* the invocation rejects: lastError = err, i++, and `await delay(delayMs)` if
\* another attempt is left, else the loop ends
FnRejects ==
    /\ retry.pc = "calling"
    /\ LET r == [retry EXCEPT !.outcomes = Append(@, "err"), !.lastError = retry.calls,
                              !.i = @ + 1]
       IN retry' = IF r.i < r.options.attempts
                   THEN [r EXCEPT !.pc = "sleeping", !.slept = Append(@, r.delayMs)]
                   ELSE Iterate(r)
    /\ UNCHANGED connectionVars

\* delay(delayMs) resolves: `if (options?.exponential) delayMs *= 2`, and the
\* next turn of the loop
DelayEnds ==
    /\ retry.pc = "sleeping"
    /\ retry' = Iterate([retry EXCEPT !.delayMs = IF retry.options.exponential
                                                  THEN 2 * @ ELSE @])
    /\ UNCHANGED connectionVars

\* the caller's signal is aborted.  delay(delayMs) is called without the signal:
\* a sleep goes on; fn gets the signal and may reject or resolve as it likes
SignalAborts ==
    /\ retry.pc # "done"
    /\ ~retry.aborted
    /\ retry' = [retry EXCEPT !.aborted = TRUE]
    /\ UNCHANGED connectionVars

\* AbortSignal.timeout(connectingDeadlineMS) of the attempt that made handle h
\* fires while the EventSource is connecting.  timeout() has put the signal into
\* deferOptions.abort, which createEventSource does not read, and has added no
\* listener of its own: the attempt goes on.
DeadlinePasses(h) ==
    /\ ~Busy
    /\ es[h].st = "connecting"
    /\ gws[es[h].gw].owner = "provider"
    /\ ~es[h].timedOut
    /\ es' = [es EXCEPT ![h].timedOut = TRUE]
    /\ UNCHANGED <<runVars, retry, missed, relayVars, nes, ngw, gws, tasks, heard, called, ncalls,
                   providerVars>>

\* ------------------------------------------------------------- specification
LoopNames == {"A", "B"}

\* no reconnect loop has begun: the gateway restoreConnection made is open
NoLoops == [gateway |-> "restore", open |-> TRUE, exponential |-> TRUE,
            pc |-> [l \in LoopNames |-> "idle"], i |-> [l \in LoopNames |-> 0],
            from |-> [l \in LoopNames |-> "none"]]

\* new BridgeEventsCollector(options); sent are the batches sendEvents has
\* delivered, emitted the number of emit() calls, failures that of failed sends
NoCollector == [events |-> <<>>, timeoutId |-> FALSE, timer |-> FALSE, isProcessing |-> FALSE,
                eventsToSend |-> <<>>, sent |-> <<>>, emitted |-> 0, failures |-> 0]

InitConnection(interval, queued, inputs) ==
    /\ maxInputs = inputs
    /\ queue = queued
    /\ nextId = Len(queued) + 1
    /\ es = [h \in Handles |-> NoEs]
    /\ nes = 0
    /\ ngw = 0
    /\ gws = [g \in Handles |-> NoGw]
    /\ tasks = {}
    /\ heard = <<>>
    /\ called = {}
    /\ ncalls = 0
    /\ clients = <<>>
    /\ lastEventId = Undefined
    /\ abortController = Null
    /\ aborted = {}
    /\ ngen = 0
    /\ gateway = Null
    /\ closedUpTo = 0
    /\ closedAt = Undefined
    /\ heartbeatReconnectIntervalMs = interval
    /\ heartbeatTimer = FALSE
    /\ timers = 0
    /\ stale = FALSE
    /\ nextTickDelay = "none"
    /\ missed = 0

\* a Provider alone: no events collector, and its reconnect loops followed in es
\* and tasks
InitProvider(interval, queued, inputs) ==
    /\ InitConnection(interval, queued, inputs)
    /\ loops = NoLoops
    /\ collector = NoCollector

\* a Provider constructed without heartbeatReconnectIntervalMs
Init == InitProvider(FALSE, <<>>, MaxInputs) /\ retry = NoRetry

\* the steps of the connection: API calls, continuations, retries, EventSource
\* opening and failing
Connection ==
    \/ \E cs \in ClientsOrNone, leid \in LeidInputs : RestoreConnection(cs, leid)
    \/ \E cs \in UpdateInputs : UpdateClients(cs)
    \/ Close
    \/ \E t \in tasks : CloseGatewayResume(t)
    \/ \E t \in tasks : CloseGatewayCaller(t)
    \/ \E t \in tasks : OpenedResume(t)
    \/ \E t \in tasks : RetryWake(t)
    \/ \E h \in Handles : EsOpen(h)
    \/ \E h \in Handles : EsError(h)

Next ==
    \/ Connection
    \/ \E h \in Handles : Deliver(h)
    \/ \E from \in Peers, to \in Sessions : Send(from, to)

Spec == Init /\ [][Next]_vars

\* the same Provider, with the connecting deadline of an attempt passing
InitDeadline == InitProvider(FALSE, <<>>, MaxInputsDeadline) /\ retry = NoRetry

NextDeadline ==
    \/ Next
    \/ \E h \in Handles : DeadlinePasses(h)

SpecDeadline == InitDeadline /\ [][NextDeadline]_vars

\* ------------------------------------------------------------- callForSuccess alone
\* One call of callForSuccess with options from small sets, among them the
\* Provider's (delayMs 1000, exponential, maxDelayMs 7000); fn resolves or
\* rejects as it likes, the signal is aborted at any time or never.
InitRetry ==
    /\ InitProvider(FALSE, <<>>, 0)
    /\ retry \in {CallForSuccessArgs(attempts, delayMs, exponential, maxDelayMs) :
                     attempts \in 1..MaxAttempts,
                     delayMs \in {DefaultDelayMs, defaultRetryDelayMs},
                     exponential \in BOOLEAN,
                     maxDelayMs \in {Undefined, defaultMaxExponentialDelayMS}}

NextRetry ==
    \/ CallForSuccess
    \/ FnResolves
    \/ FnRejects
    \/ DelayEnds
    \/ SignalAborts

SpecRetry == InitRetry /\ [][NextRetry]_vars

\* a Provider constructed with heartbeatReconnectIntervalMs: the watchdog runs.
\* The relay holds one frame that a peer has sent before, and sends heartbeats.
InitHeartbeat ==
    /\ InitProvider(TRUE, <<Frame(1, "a1", "s1", Encrypt(MessageNo(1), "a1", "s1"))>>, MaxInputs)
    /\ retry = NoRetry

NextHeartbeat ==
    \/ Connection
    \/ \E ref \in BOOLEAN : HeartbeatTick(ref)
    \/ \E t \in tasks : GraceWake(t)
    \/ TimePasses
    \/ \E h \in Handles : Heartbeat(h)
    \/ \E h \in Handles : Deliver(h)

SpecHeartbeat == InitHeartbeat /\ [][NextHeartbeat]_vars

\* ------------------------------------------------------------- a bare BridgeGateway
\* A user of BridgeGateway without a Provider: gateways are constructed,
\* registered and closed by hand; their listener gets the raw relay frames.
SessionIdInputs == {<<"s1">>, <<"s1", "s2">>}

GatewayLeidInputs == {Undefined} \cup 1..MaxFrames

\* BridgeGateway.open(params): new BridgeGateway(...) and registerSession(), up
\* to the await inside create
GwOpen(sessionIds, leid) ==
    LET g == ngw + 1
        h == nes + 1
        G1 == [gws EXCEPT ![g] = NewGateway("opening", sessionIds, leid)]
    IN /\ Inputs < maxInputs
       /\ nes < MaxES
       /\ ncalls' = ncalls + 1
       /\ ngw' = g
       /\ nes' = h
       /\ es' = CreateEs(es, G1, g, h, Null)
       /\ gws' = CreateGw(G1, g, h)
       /\ tasks' = tasks \cup {NewTask("open", "registering", Null, h, 0, 0)}
       /\ UNCHANGED <<runVars, retry, missed, relayVars, heard, called, providerVars>>

\* gateway.registerSession() on a gateway that exists: eventSource.create(undefined),
\* up to its await
GwRegisterSession(g) ==
    /\ Inputs < maxInputs
    /\ nes < MaxES
    /\ gws[g].owner = "user"
    /\ ncalls' = ncalls + 1
    /\ nes' = nes + 1
    /\ es' = CreateEs(es, gws, g, nes + 1, Null)
    /\ gws' = [CreateGw(OpenCatch(gws, tasks, es'), g, nes + 1) EXCEPT
                  ![g].disposed = IF @ = "yes" THEN "recreated" ELSE @]
    /\ tasks' = AfterReject(tasks, es') \cup {NewTask("register", "registering", Null, nes + 1, 0, 0)}
    /\ UNCHANGED <<runVars, retry, missed, relayVars, ngw, heard, called, providerVars>>

\* gateway.close(): eventSource.dispose().  `disposed` records it: "yes" after a
\* close(), "recreated" once registerSession() was called after one
GwClose(g) ==
    /\ Inputs < maxInputs
    /\ gws[g].owner = "user"
    /\ ncalls' = ncalls + 1
    /\ es' = DisposeEs(es, gws, g)
    /\ gws' = [DisposeGw(gws, g) EXCEPT ![g].disposed = "yes"]
    /\ tasks' = AfterReject(tasks, es')
    /\ UNCHANGED <<runVars, retry, missed, relayVars, nes, ngw, heard, called, providerVars>>

NextGateway ==
    \/ \E sessionIds \in SessionIdInputs, leid \in GatewayLeidInputs : GwOpen(sessionIds, leid)
    \/ \E g \in Handles : GwRegisterSession(g)
    \/ \E g \in Handles : GwClose(g)
    \/ \E t \in tasks : OpenedResume(t)
    \/ \E h \in Handles : EsOpen(h)
    \/ \E h \in Handles : EsError(h)
    \/ \E h \in Handles : Deliver(h)
    \/ \E to \in Sessions : Send("a1", to)

SpecGateway == Init /\ [][NextGateway]_vars

\* ------------------------------------------------------------- properties
HeardOn(h) == SelectSeq(heard, LAMBDA e : e.h = h)

Ids(s) == [i \in 1..Len(s) |-> s[i].lastEventId]

\* a is b with some elements left out
RECURSIVE IsSubseq(_, _)
IsSubseq(a, b) ==
    IF a = <<>> THEN TRUE
    ELSE IF b = <<>> THEN FALSE
    ELSE IF Head(a) = Head(b) THEN IsSubseq(Tail(a), Tail(b))
    ELSE IsSubseq(a, Tail(b))

\* the pairings the Provider is ever given
Pairings == UNION {SeqToSet(cs) : cs \in ClientInputs}

LiveHandles(g) == {h \in Handles : es[h].gw = g /\ IsLive(es[h])}

LiveGateways == {g \in Handles : gws[g].owner = "provider" /\ LiveHandles(g) # {}}

\* C1: within one SSE subscription the Provider invokes the listener in the
\* order in which the relay delivered the frames: the event ids the listener
\* got for a handle are the ids the relay sent on it, some left out, none
\* reordered
C1_ListenerInDeliveryOrder ==
    \A h \in Handles : IsSubseq(Ids(HeardOn(h)), es[h].got)

\* two frames were delivered on one subscription and both reached the listener
C1_Witness ==
    \E h \in Handles : Len(HeardOn(h)) >= 2 /\ gws[es[h].gw].owner = "provider"

C3_AtMostOneLiveGateway ==
    /\ Cardinality(LiveGateways) <= 1
    /\ \A g \in LiveGateways : g = gateway

\* C4: a Gateway's resource cell holds at most one live subscription, and a
\* live handle is the one the cell holds: its resource, or the creation it
\* awaits
C4_OneLiveSubscription ==
    \A g \in Handles :
        /\ Cardinality(LiveHandles(g)) <= 1
        /\ \A h \in LiveHandles(g) : h = gws[g].currentResource \/ h = gws[g].currentPromise

\* a gateway was registered a second time and its first subscription is closed
C4_Witness ==
    \E g \in Handles : \E h1, h2 \in Handles :
        /\ h1 # h2
        /\ es[h1].gw = g
        /\ es[h2].gw = g
        /\ es[h1].st = "closed"
        /\ IsLive(es[h2])

\* C5: after close() has returned no callback is invoked for a frame, an error
\* or an open event of a subscription that existed when close() was called
C5_NoCallbackAfterClose ==
    /\ \A i \in 1..Len(heard) : ~heard[i].old
    /\ \A c \in called : ~c.old

\* C6: once close() has returned and no restoreConnection or updateClients has
\* been called since close() was called, the Provider has no gateway
C6_StaysClosed ==
    closedAt = ngen => gateway = Null

\* the step in which a close() returns
CloseReturns ==
    /\ \E t \in tasks : t.kind = "close" /\ t.pc = "nulled" /\ Runs(t)
    /\ ncalls' = ncalls

\* C7: when a close() returns the Provider is Closed: no gateway, no clients,
\* no lastEventId, no watchdog timer pending
C7_CloseLeavesClosed ==
    [][CloseReturns =>
        (gateway' = Null /\ clients' = <<>> /\ lastEventId' = Undefined /\ timers' = 0)]_vars

\* C8: the listener is never invoked for a frame that came on a subscription
\* of a generation that was cancelled before
C8_NoListenerForCancelled ==
    \A i \in 1..Len(heard) : ~heard[i].cancelled

\* a subscription that was open and one whose creation was in flight have been
\* cancelled with their generations, the relay still holds a frame for the
\* first, and the listener has been invoked
C8_Witness ==
    /\ heard # <<>>
    /\ \E h1, h2 \in Handles :
          /\ es[h1].gen \in aborted
          /\ es[h1].st = "closed"
          /\ es[h1].wasPreviouslyOpened
          /\ \E k \in 1..Len(queue) : Eligible(queue[k], es[h1]) /\ queue[k].id > es[h1].cursor
          /\ es[h2].gen \in aborted
          /\ es[h2].promise = "rejected"

\* C9: within one generation every lastEventId the listener gets is greater
\* than all it got before
C9_StrictlyIncreasing ==
    \A i, j \in 1..Len(heard) :
        (i < j /\ heard[i].gen = heard[j].gen) => heard[i].lastEventId < heard[j].lastEventId

\* the frames of the queue a subscription of gateway g is to get, up to event id c
QueuedFor(g, c) ==
    SelectSeq(queue, LAMBDA f :
        /\ f.to \in SeqToSet(gws[g].sessionIds)
        /\ (gws[g].lastEventId = Undefined \/ f.id > gws[g].lastEventId)
        /\ f.id <= c)

BareHandles == {h \in Handles : es[h].st # "unused" /\ gws[es[h].gw].owner # "provider"}

\* C10: the listener of a gateway constructed with lastEventId L gets, on each
\* of its subscriptions, the queued frames for its session ids with an event id
\* greater than L (all of them without L), each with its own event id, in id
\* order and without a gap up to the last one delivered; a subscription that is
\* open with nothing left to deliver has got them all
C10_ResumeAfterLastEventId ==
    \A h \in BareHandles :
        /\ HeardOn(h) = [i \in 1..Len(QueuedFor(es[h].gw, es[h].cursor)) |->
                [h |-> h, lastEventId |-> QueuedFor(es[h].gw, es[h].cursor)[i].id,
                 from |-> QueuedFor(es[h].gw, es[h].cursor)[i].from,
                 body |-> QueuedFor(es[h].gw, es[h].cursor)[i].message,
                 session |-> NoSession, old |-> FALSE, gen |-> Null, cancelled |-> FALSE]]
        /\ (es[h].st = "open" /\ RelayNext(es[h]) = Null)
              => Len(HeardOn(h)) = Len(QueuedFor(es[h].gw, nextId))

\* frames 1 and 2 are queued for the same session; a subscription with
\* lastEventId 1 got frame 2 alone, and a subscription with lastEventId 2 is
\* open and has nothing to get
C10_Witness ==
    \E h2, h3 \in BareHandles :
        /\ Len(queue) = 2
        /\ \A k \in 1..2 : queue[k].to \in SeqToSet(es[h2].client_id) \cap SeqToSet(es[h3].client_id)
        /\ gws[es[h2].gw].lastEventId = 1
        /\ Ids(HeardOn(h2)) = <<2>>
        /\ gws[es[h3].gw].lastEventId = 2
        /\ es[h3].st = "open"
        /\ RelayNext(es[h3]) = Null
        /\ HeardOn(h3) = <<>>

\* ------------------------------------------------------------- resume scenario
\* One wallet session paired with one app: the Provider connects, is closed and
\* restored, while the app sends.  Microtasks run, timers fire, an EventSource
\* that stays connecting opens and the relay sends what it has queued.
ResumeClients == <<Client("s1", "a1")>>

InitResume == InitProvider(FALSE, <<>>, MaxInputsResume) /\ retry = NoRetry

ResumeSteps ==
    \/ \E t \in tasks : CloseGatewayResume(t)
    \/ \E t \in tasks : CloseGatewayCaller(t)
    \/ \E t \in tasks : OpenedResume(t)
    \/ \E t \in tasks : RetryWake(t)

NextResume ==
    \/ \E leid \in LeidInputs : RestoreConnection(ResumeClients, leid)
    \/ Close
    \/ ResumeSteps
    \/ \E h \in Handles : EsOpen(h)
    \/ \E h \in Handles : EsError(h)
    \/ \E h \in Handles : Deliver(h)
    \/ Send("a1", "s1")

SpecResume ==
    /\ InitResume
    /\ [][NextResume]_vars
    /\ WF_vars(ResumeSteps)
    /\ WF_vars(\E h \in Handles : EsOpen(h))
    /\ WF_vars(\E h \in Handles : Deliver(h))

\* frame 1 has reached the listener, a close() has returned, and the one
\* restoreConnection called since then is the last input of the run
ResumedAfterClose ==
    /\ Inputs = maxInputs
    /\ closedAt # Undefined
    /\ ngen = closedAt + 1
    /\ abortController = ngen
    /\ clients # <<>>
    /\ \A t \in tasks : t.kind # "close"
    /\ \E i \in 1..Len(heard) : heard[i].lastEventId = 1 /\ heard[i].gen # ngen

\* the Provider is Connected and its listener has got, in this generation, every
\* queued frame after frame 1
CaughtUp ==
    /\ gateway # Null
    /\ GwIsReady(es, gws, gateway)
    /\ \A k \in 1..Len(queue) :
          queue[k].id > 1 =>
             \E i \in 1..Len(heard) :
                heard[i].lastEventId = queue[k].id /\ heard[i].gen = abortController

\* C11: a Provider that has received frame X = 1, has been closed and is restored
\* gets Connected again and its listener gets every frame queued after X, unless
\* the run has used up the EventSource instances of the model
C11_ResumeDeliversLater ==
    ResumedAfterClose ~> (CaughtUp \/ nes = MaxES)

\* restored with lastEventId 1 after a close: Connected, and frame 2 alone has
\* reached the listener in the new generation
C11_Witness ==
    /\ ResumedAfterClose
    /\ CaughtUp
    /\ nes < MaxES
    /\ Len(queue) = 2
    /\ Ids(SelectSeq(heard, LAMBDA e : e.gen = abortController)) = <<2>>

\* the session ids of two client lists are the same set
SameSessionIds(csA, csB) ==
    {csA[i].sessionId : i \in 1..Len(csA)} = {csB[i].sessionId : i \in 1..Len(csB)}

\* what a call that performs a restoreConnection(cs) without lastEventId does at
\* once: the clients are replaced, a new generation is installed and the old one
\* cancelled, and the subscription of the current gateway is closed
RestorePerformed(cs) ==
    /\ clients' = cs
    /\ lastEventId' = Undefined
    /\ ngen' = ngen + 1
    /\ abortController' = ngen'
    /\ (abortController # Null => abortController \in aborted')
    /\ (gateway # Null => \A h \in Handles : es[h].gw = gateway => ~IsLive(es'[h]))

C13_RestoreAlwaysReconnects ==
    [][\A cs \in ClientInputs : \A leid \in LeidInputs :
          (RestoreConnection(cs, leid) /\ SameSessionIds(clients, cs))
             => /\ ngen' = ngen + 1
                /\ abortController' = ngen'
                /\ abortController \in aborted'
                /\ lastEventId' = leid
                /\ \A h \in Handles :
                      (es[h].st # "unused" /\ es[h].root = abortController) => ~IsLive(es'[h])
                /\ gateway # Null
                     => \A h \in Handles : es[h].gw = gateway => ~IsLive(es'[h])]_vars

\* two calls made two generations, both for the one client {s1, a1}: the
\* subscription of the first had delivered a frame and is closed, that of the
\* second is open and onConnecting was invoked for it
C13_Witness ==
    /\ ncalls = 2
    /\ ngen = 2
    /\ clients = <<Client("s1", "a1")>>
    /\ \E h1, h2 \in Handles :
          /\ es[h1].gen = 1
          /\ es[h1].st \notin {"unused", "connecting", "open"}
          /\ gws[es[h1].gw].sessionIds = <<"s1">>
          /\ \E i \in 1..Len(heard) : heard[i].h = h1
          /\ es[h2].gen = 2
          /\ es[h2].st = "open"
          /\ gateway = es[h2].gw
    /\ \E c \in called : c.cb = "onConnecting" /\ c.gen = 2

\* C13 as stated: a restoreConnection(C) with the session ids of the current
\* clients leaves every live subscription live
C13_SameSessionsKeepSubscription ==
    [][\A cs \in ClientsOrNone : \A leid \in LeidInputs :
          (RestoreConnection(cs, leid) /\ SameSessionIds(clients, cs))
             => \A h \in Handles : IsLive(es[h]) => IsLive(es'[h])]_vars

\* C14: a heartbeat frame does not invoke the listener (nor errorListener or
\* onConnecting), resets the time of the last heartbeat, and leaves lastEventId
\* as it is.
C14_HeartbeatOnlyResetsClock ==
    [][\A h \in Handles :
          Heartbeat(h) => /\ heard' = heard
                          /\ called' = called
                          /\ lastEventId' = lastEventId
                          /\ ~stale']_vars

\* after one restoreConnection the interval passed and the watchdog's tick found
\* no heartbeat; a heartbeat came while the tick waited.  The one frame queued
\* was delivered on the same subscription: the listener has that one invocation
\* and lastEventId is that frame's
C14_Witness ==
    /\ ncalls = 1
    /\ ngen = 1
    /\ \E t \in tasks : t.pc = "grace"
    /\ ~stale
    /\ Len(heard) = 1
    /\ lastEventId = 1
    /\ gateway # Null
    /\ GwIsReady(es, gws, gateway)

\* C15: when the interval has passed without a heartbeat (the host was blocked)
\* the watchdog begins at most one reconnect.
C15_AtMostOneWatchdogReconnect == missed <= 1

\* the Provider is Connected: this.gateway is ready and no call, reconnect or
\* retry is in flight (a tick in its grace delay may be)
Connected ==
    /\ gateway # Null
    /\ GwIsReady(es, gws, gateway)
    /\ \A t \in tasks : t.pc = "grace"

\* a watchdog check is scheduled: a timer is pending or a tick is in its grace
\* delay
Armed == timers > 0 \/ \E t \in tasks : t.pc = "grace"

\* C16: whenever heartbeatReconnectIntervalMs is set and the Provider is
\* Connected, whichever reconnect led there, the watchdog is armed.
C16_ConnectedIsArmed == (heartbeatReconnectIntervalMs /\ Connected) => Armed

\* C17: an open attempt that has neither opened nor failed when its connecting
\* deadline passes fails then (its registerSession rejects, so that the retry
\* engine goes on to the next attempt).
C17_DeadlineFailsAttempt ==
    \A h \in Handles : es[h].timedOut => es[h].promise # "pending"

Min(a, b) == IF a <= b THEN a ELSE b

\* the invocations of fn that have rejected
Failures(r) == Cardinality({k \in 1..Len(r.outcomes) : r.outcomes[k] = "err"})

\* C18: callForSuccess(fn, {attempts: N}) with N >= 1 invokes fn at most N times,
\* one invocation at a time; nothing is invoked after an invocation that
\* resolved, whose value is the result; if N invocations have rejected the result
\* is the error of the N-th; a sleep follows each rejected invocation but the
\* N-th, so that a call that ends with a value or with fn's error has slept
\* only between two invocations.
C18_AtMostNSequentialAttempts ==
    LET r == retry
        N == r.options.attempts
        n == Len(r.outcomes)
    IN /\ r.calls <= N
       /\ r.calls - n = (IF r.pc = "calling" THEN 1 ELSE 0)
       /\ \A k \in 1..(n - 1) : r.outcomes[k] = "err"
       /\ (n > 0 /\ r.outcomes[n] = "ok") => (r.pc = "done" /\ r.result = Value(n))
       /\ r.result.kind = "value" => (n > 0 /\ r.outcomes[n] = "ok")
       /\ Failures(r) = N => (r.pc = "done" /\ r.result = ErrorOf(N))
       /\ r.result.kind = "error" => Failures(r) = N
       /\ Len(r.slept) = Min(Failures(r), N - 1)
       /\ r.pc = "sleeping" => (n > 0 /\ r.outcomes[n] = "err" /\ r.calls < N)
       /\ r.result.kind \in {"value", "error"} => Len(r.slept) = r.calls - 1

\* three attempts were allowed and all three invocations rejected: the result is
\* the third one's error, after two sleeps; the signal was not aborted
C18_Witness ==
    /\ retry.options.attempts = 3
    /\ retry.outcomes = <<"err", "err", "err">>
    /\ retry.result = ErrorOf(3)
    /\ Len(retry.slept) = 2
    /\ ~retry.aborted

\* C19: with `exponential` the sleep before the k-th retry is
\* min(delayMs * 2^(k-1), maxDelayMs), where delayMs and maxDelayMs are the
\* options given (no maxDelayMs: no cap); without it every sleep is delayMs.
C19_SleepIsCappedBackoff ==
    LET o == retry.options
    IN \A k \in 1..Len(retry.slept) :
          retry.slept[k] =
             IF o.exponential
             THEN IF o.maxDelayMs = Undefined
                  THEN o.delayMs * 2 ^ (k - 1)
                  ELSE Min(o.delayMs * 2 ^ (k - 1), o.maxDelayMs)
             ELSE o.delayMs

\* C20: once the signal is aborted the retry engine is not asleep: an abort
\* during a sleep ends the sleep.
C20_AbortEndsSleep == ~(retry.pc = "sleeping" /\ retry.aborted)

\* BridgeProvider.isReady / isConnecting / isClosed
isReady == IF gateway # Null THEN GwIsReady(es, gws, gateway) ELSE FALSE
isConnecting == IF gateway # Null THEN GwIsConnecting(es, gws, gateway) ELSE FALSE
isClosed == IF gateway # Null THEN GwIsClosed(es, gws, gateway) ELSE FALSE

\* a registration attempt of this.gateway is in flight: its creation promise
\* is pending
RegistrationInFlight ==
    /\ gateway # Null
    /\ gws[gateway].currentPromise # Null
    /\ es[gws[gateway].currentPromise].promise = "pending"

\* the number of the three flags that are true
FlagsTrue == Cardinality({f \in {"isReady", "isConnecting", "isClosed"} :
                            \/ f = "isReady" /\ isReady
                            \/ f = "isConnecting" /\ isConnecting
                            \/ f = "isClosed" /\ isClosed})

\* C21: the Provider's flags match a row of the state table: while a
\* registration attempt is in flight isConnecting is true and isReady and
\* isClosed are false; at most one flag is true; with no gateway all are false.
C21_StateTable ==
    /\ RegistrationInFlight => (isConnecting /\ ~isReady /\ ~isClosed)
    /\ FlagsTrue <= 1
    /\ gateway = Null => FlagsTrue = 0

\* C22 (as amended): when BridgeGateway.open resolves the gateway is ready;
\* after gateway.close() the gateway is closed and not ready and has no
\* subscription, and stays so until registerSession() is called on it again.
C22_ReadyAfterOpenClosedAfterClose ==
    /\ [](\A g \in Handles :
            (gws[g].owner = "user" /\ gws[g].disposed = "yes")
               => /\ GwIsClosed(es, gws, g)
                  /\ ~GwIsReady(es, gws, g)
                  /\ \A h \in Handles : es[h].gw = g => ~IsLive(es[h]))
    /\ [][\A t \in tasks :
            (OpenedResume(t) /\ t.kind = "open")
               => /\ gws'[es[t.h].gw].owner = "user"
                  /\ GwIsReady(es', gws', es[t.h].gw)]_vars

\* a gateway that BridgeGateway.open returned: its subscription delivered a
\* frame, then close() was called: closed, not ready, the EventSource closed
C22_Witness ==
    \E g \in Handles :
       /\ gws[g].owner = "user"
       /\ gws[g].disposed = "yes"
       /\ GwIsClosed(es, gws, g)
       /\ \E h \in Handles : /\ es[h].gw = g
                             /\ es[h].wasPreviouslyOpened
                             /\ es[h].st = "closed"
                             /\ es[h].got # <<>>

\* C22 as stated: once close() was called on a gateway it is closed and not
\* ready ever after
C22_ClosedForEver ==
    \A g \in Handles :
       (gws[g].owner = "user" /\ gws[g].disposed # "no")
          => (GwIsClosed(es, gws, g) /\ ~GwIsReady(es, gws, g))

\* ------------------------------------------------------------- open() that fails
\* BridgeProvider.open and BridgeGateway.open build an instance, connect it and
\* hand it out; when connecting throws they close the instance and rethrow.
MaxInputsOpen == 3

\* BridgeProvider.open(params): new BridgeProvider(...) and
\* `await provider.restoreConnection(params.clients, params.options)`
ProviderOpen(cs, leid) ==
    /\ ngen = 0
    /\ RestoreConnection(cs, leid)

\* params.options.signal fires while open() is connecting: the generation made
\* by createAbortController(options.signal) is aborted with it
OpenSignalAborts ==
    /\ ~Busy
    /\ \E t \in tasks : t.kind = "restore"
    /\ abortController # Null
    /\ abortController \notin aborted
    /\ aborted' = aborted \cup {abortController}
    /\ es' = AbortGeneration(es, abortController)
    /\ tasks' = AfterReject(tasks, es')
    /\ UNCHANGED <<runVars, retry, missed, relayVars, nes, ngw, gws, heard, called, ncalls, clients,
                   lastEventId, abortController, ngen, gateway, closedUpTo, closedAt, watchdogVars>>

\* the catch of BridgeProvider.open: `await provider.close()`, up to the await
\* of closeGateway, run by the task t whose restoreConnection threw
ProviderOpenCatch(t) ==
    IF gateway # Null
    THEN /\ es' = CloseGatewayEs(es, gws)
         /\ gws' = CloseGatewayGw(gws)
         /\ tasks' = (AfterReject(tasks, es') \ {t})
                \cup {[t EXCEPT !.kind = "close", !.pc = "closing", !.sig = Null, !.h = nes,
                                !.left = CloseTurns(es, gws, gateway), !.born = 0,
                                !.fresh = FALSE, !.since = ngen]}
    ELSE /\ tasks' = (tasks \ {t})
                \cup {[t EXCEPT !.kind = "close", !.pc = "nulled", !.sig = Null, !.h = nes,
                                !.left = 1, !.born = 0, !.fresh = FALSE, !.since = ngen]}
         /\ UNCHANGED <<es, gws>>

\* callForSuccess after `await delay(delayMs)` inside BridgeProvider.open: with
\* the signal aborted it throws, restoreConnection rejects and open's catch runs
ProviderOpenRetryWake(t) ==
    IF t \in tasks /\ t.pc = "sleeping" /\ t.kind = "restore" /\ SignalAborted(t.sig)
    THEN /\ ~Busy
         /\ ProviderOpenCatch(t)
         /\ UNCHANGED <<runVars, retry, missed, relayVars, nes, ngw, heard, called, ncalls, clients,
                        lastEventId, abortController, aborted, ngen, gateway, closedUpTo, closedAt,
                        watchdogVars>>
    ELSE RetryWake(t)

\* the Provider is constructed with heartbeatReconnectIntervalMs
InitOpen == InitProvider(TRUE, <<>>, MaxInputsOpen) /\ retry = NoRetry

NextOpen ==
    \/ \E cs \in ClientInputs, leid \in LeidInputs : ProviderOpen(cs, leid)
    \/ \E sessionIds \in SessionIdInputs, leid \in GatewayLeidInputs : GwOpen(sessionIds, leid)
    \/ OpenSignalAborts
    \/ \E t \in tasks : CloseGatewayResume(t)
    \/ \E t \in tasks : CloseGatewayCaller(t)
    \/ \E t \in tasks : OpenedResume(t)
    \/ \E t \in tasks : ProviderOpenRetryWake(t)
    \/ \E h \in Handles : EsOpen(h)
    \/ \E h \in Handles : EsError(h)

SpecOpen == InitOpen /\ [][NextOpen]_vars

\* BridgeProvider.open has thrown: its catch has run close() to the end
ProviderOpenFailed == closedAt # Undefined

\* BridgeGateway.open has thrown for gateway g
GatewayOpenFailed(g) == gws[g].owner = "lost"

\* C23: when BridgeProvider.open or BridgeGateway.open throws, the instance it
\* built is closed: the Provider holds no gateway, no clients and no watchdog
\* timer and none of its connection tasks is left; the resource cell of every
\* gateway built is empty and none of its EventSources is connecting or open
C23_FailedOpenLeavesNothing ==
    /\ ProviderOpenFailed =>
          /\ gateway = Null
          /\ clients = <<>>
          /\ timers = 0
          /\ ~heartbeatTimer
          /\ \A t \in tasks : t.kind = "open"
          /\ \A g \in Handles :
                gws[g].owner = "provider"
                   => /\ gws[g].currentPromise = Null
                      /\ gws[g].currentResource = Null
                      /\ \A h \in Handles : es[h].gw = g => ~IsLive(es[h])
    /\ \A g \in Handles :
          GatewayOpenFailed(g)
             => /\ gws[g].currentPromise = Null
                /\ gws[g].currentResource = Null
                /\ \A h \in Handles : es[h].gw = g => ~IsLive(es[h])
                /\ \A t \in tasks : t.kind = "open" => es[t.h].gw # g

\* both have failed: BridgeProvider.open by its signal after a gateway was made,
\* BridgeGateway.open by an error before the EventSource opened
C23_Witness ==
    /\ ProviderOpenFailed
    /\ \E g \in Handles : gws[g].owner = "provider"
    /\ \E g \in Handles : GatewayOpenFailed(g)

\* ------------------------------------------------------------- Provider.send
MaxInputsSend == 2
MaxPosts == 3       \* the POSTs of one send that the relay may fail

\* Number.MAX_SAFE_INTEGER, the default of `attempts`: stands for 2^53 - 1, a
\* count no run reaches
MAX_SAFE_INTEGER == 2147483647

\* the `attempts` option of send: absent, or a count
AttemptsInputs == {Undefined, 1, 2, 3}

\* send returned at `if (options?.signal?.aborted) return`
Returned == [kind |-> "returned", of |-> 0]

\* a send that stores the event id the relay will give its frame
sendStoresEventId ==
    /\ lastEventId' = nextId
    /\ UNCHANGED <<clients, abortController, aborted, ngen, gateway, closedUpTo, closedAt,
                   watchdogVars>>

\* send(message, session, clientSessionId, options) assigns no field of the
\* Provider
sendKeepsProvider == UNCHANGED providerVars

\* a send without the check of the signal before encryption
ProviderSendUnchecked(attempts, signalAborted) ==
    /\ InSyncBlock
    /\ retry.pc = "idle"
    /\ retry' =
          Iterate([CallForSuccessArgs(IF attempts = Undefined THEN MAX_SAFE_INTEGER
                                      ELSE attempts,
                                      defaultRetryDelayMs, TRUE, defaultMaxExponentialDelayMS)
                      EXCEPT !.aborted = signalAborted])
    /\ sendKeepsProvider
    /\ UNCHANGED <<runVars, missed, relayVars, es, nes, ngw, gws, tasks, heard, called, ncalls>>

\* send(message, session, clientSessionId, {attempts, signal}): with the signal
\* aborted it returns; else session.encrypt and callForSuccess up to the await
\* of the first sendRequest
ProviderSend(attempts, signalAborted) ==
    /\ InSyncBlock
    /\ retry.pc = "idle"
    /\ retry' =
          LET r == CallForSuccessArgs(IF attempts = Undefined THEN MAX_SAFE_INTEGER
                                      ELSE attempts,
                                      defaultRetryDelayMs, TRUE, defaultMaxExponentialDelayMS)
          IN IF signalAborted
             THEN [r EXCEPT !.pc = "done", !.aborted = TRUE, !.result = Returned]
             ELSE Iterate(r)
    /\ sendKeepsProvider
    /\ UNCHANGED <<runVars, missed, relayVars, es, nes, ngw, gws, tasks, heard, called, ncalls>>

\* BridgeGateway.sendRequest, the POST answered with a 2xx status: the relay has
\* queued the frame, fn resolves and callForSuccess returns
SendRequestOk(from, to) ==
    /\ ~Busy
    /\ retry.pc = "calling"
    /\ RelayPost(from, to, Encrypt(MessageNo(nextId), from, to))
    /\ retry' = [retry EXCEPT !.pc = "done", !.outcomes = Append(@, "ok"),
                              !.result = Value(retry.calls)]
    /\ sendKeepsProvider
    /\ UNCHANGED <<runVars, missed, es, nes, ngw, gws, tasks, heard, called, ncalls>>

\* the POST fails (fetch rejects, or `!response.ok`): sendRequest throws,
\* callForSuccess sleeps if another attempt is left
SendRequestFails ==
    /\ ~Busy
    /\ Len(retry.outcomes) < MaxPosts
    /\ FnRejects

\* a Provider that connects, reconnects and closes while one send is made
NextSend ==
    \/ Connection
    \/ \E attempts \in AttemptsInputs, signalAborted \in BOOLEAN :
          ProviderSend(attempts, signalAborted)
    \/ \E to \in Peers : SendRequestOk("s1", to)
    \/ SendRequestFails
    \/ DelayEnds
    \/ SignalAborts

InitSend == InitProvider(FALSE, <<>>, MaxInputsSend) /\ retry = NoRetry

SpecSend == InitSend /\ [][NextSend]_vars

\* C24: send() can be called and its POST answered whatever the Provider's
\* state is, and no step of a send (the call, a POST answered or failed, a
\* sleep that ends, its signal aborted) changes the gateway, the generation,
\* the clients, lastEventId, the watchdog, an EventSource, a resource cell or a
\* connection task
C24_SendLeavesConnection ==
    /\ []((retry.pc = "idle" /\ InSyncBlock) => ENABLED ProviderSend(Undefined, FALSE))
    /\ []((retry.pc = "calling" /\ ~Busy) => ENABLED SendRequestOk("s1", "a1"))
    /\ [][retry' # retry =>
            UNCHANGED <<gateway, abortController, aborted, ngen, clients, lastEventId,
                        closedUpTo, closedAt, watchdogVars, es, gws, tasks, heard, called>>]_vars

\* a send has resolved after a failed POST while the Provider's registration
\* is in flight: it has a gateway and no open subscription
C24_Witness ==
    /\ retry.result.kind = "value"
    /\ retry.outcomes = <<"err", "ok">>
    /\ queue # <<>>
    /\ RegistrationInFlight
    /\ \A h \in Handles : es[h].st # "open"

\* C25: a send whose signal is aborted at the call returns with no POST made;
\* otherwise it makes at most `attempts` POSTs, one after the other, goes on
\* after a failed POST, resolves at the first POST answered with 2xx, and
\* rejects only with the error of the attempts-th failed POST or, its signal
\* aborted, with the cancellation error
C25_SendPostsAndResult ==
    LET r == retry
        N == r.options.attempts
        n == Len(r.outcomes)
    IN /\ r.calls <= N
       /\ r.calls - n = (IF r.pc = "calling" THEN 1 ELSE 0)
       /\ \A k \in 1..(n - 1) : r.outcomes[k] = "err"
       /\ (r.result.kind = "value") = (n > 0 /\ r.outcomes[n] = "ok")
       /\ r.result = Returned => (r.calls = 0 /\ r.aborted)
       /\ (r.pc = "done" /\ r.calls = 0) => r.result = Returned
       /\ r.result.kind = "error" => (Failures(r) = N /\ r.result.of = N)
       /\ r.result.kind = "aborted" => (r.aborted /\ Failures(r) < N)
       /\ (r.pc = "done") = (r.result # NoResult)
       /\ Len(queue) <= 1
       /\ (queue # <<>>) = (r.result.kind = "value")

\* a send with attempts = 2 whose signal was not aborted: rejected with the
\* error of the second failed POST, nothing queued at the relay
C25_Witness ==
    /\ retry.options.attempts = 2
    /\ retry.outcomes = <<"err", "err">>
    /\ retry.result = ErrorOf(2)
    /\ ~retry.aborted
    /\ queue = <<>>

\* ------------------------------------------------------------- frames that fail
\* A Provider whose subscriptions also get frames it cannot handle: data that is
\* not JSON, and (from Send) frames of a sender it has no client for or
\* encrypted for another session.
MaxInputsFrames == 4

NextFrames ==
    \/ Next
    \/ \E from \in Peers, to \in Sessions : GarbledFrame(from, to)

InitFrames == InitProvider(FALSE, <<>>, MaxInputsFrames) /\ retry = NoRetry

SpecFrames == InitFrames /\ [][NextFrames]_vars

\* the frames handle h has received that the listener was not called for
Unheard(h) ==
    {id \in SeqToSet(es[h].got) :
        \A k \in 1..Len(heard) : ~(heard[k].h = h /\ heard[k].lastEventId = id)}

\* C26: when a subscription of the Provider has received a frame that the
\* listener was not called for (it could not be parsed or decrypted),
\* errorListener has been called
C26_FailedFramesReported ==
    \A h \in Handles :
       (es[h].st # "unused" /\ gws[es[h].gw].owner = "provider" /\ Unheard(h) # {})
          => \E c \in called : c.cb = "errorListener"

\* C30: whenever gatewayListener has handled a frame that is no heartbeat,
\* lastEventId is the event id of that frame
C30_LastEventIdFollowsFrames ==
    [][\A h \in Handles :
          (Deliver(h) /\ gws[es[h].gw].owner = "provider")
             => lastEventId' = es'[h].cursor]_vars

\* ------------------------------------------------------------- overlapping calls
\* restoreConnection(C1) on a new Provider, and restoreConnection(C2) while the
\* first call is still closing, connecting or asleep before a retry.  The
\* Provider has heartbeatReconnectIntervalMs set and the heartbeats come in time:
\* a tick of the watchdog finds nothing to do and schedules the next one.
MaxInputsOverlap == 2

FirstRestore(cs) ==
    /\ ngen = 0
    /\ RestoreConnection(cs, Undefined)

RestoreWhileConnecting(cs) ==
    /\ ngen = 1
    /\ \E t \in tasks : t.kind = "restore"
    /\ RestoreConnection(cs, Undefined)

InitOverlap == InitProvider(TRUE, <<>>, MaxInputsOverlap) /\ retry = NoRetry

NextOverlap ==
    \/ \E cs \in ClientInputs : FirstRestore(cs)
    \/ \E cs \in ClientInputs : RestoreWhileConnecting(cs)
    \/ ResumeSteps
    \/ \E h \in Handles : EsOpen(h)
    \/ \E h \in Handles : EsError(h)

\* microtasks and retry timers run, and the relay accepts: an EventSource that
\* stays connecting opens
SpecOverlap ==
    /\ InitOverlap
    /\ [][NextOverlap]_vars
    /\ WF_vars(ResumeSteps)
    /\ WF_vars(\E h \in Handles : EsOpen(h))

\* the second call has been made
Overlapped == ngen = 2

\* Connected, with this.gateway the only gateway that has a subscription, for
\* the session ids of the clients of the last call
ConnectedToClients ==
    /\ Connected
    /\ LiveGateways = {gateway}
    /\ gws[gateway].sessionIds = distinct(SessionIdsOf(clients))
    /\ \A h \in LiveHandles(gateway) : es[h].client_id = gws[gateway].sessionIds

\* C27: when restoreConnection(C2) is called while restoreConnection(C1) is in
\* flight, every connect attempt made from then on is made under the signal of
\* the second call, the watchdog is armed only by the call of the current
\* generation when its subscription has opened, the clients are C2, whenever the
\* Provider is Connected it is so with one gateway subscribed to the session ids
\* of C2, and it gets Connected unless the run uses up the EventSource instances
\* of the model
C27_LaterCallTakesOver ==
    /\ [](\A h \in Handles : es[h].st # "unused" => es[h].root = es[h].gen)
    /\ []((Overlapped /\ Connected) => ConnectedToClients)
    /\ [][timers' > timers =>
            \E t \in tasks : /\ t.kind = "restore"
                             /\ t.sig = abortController
                             /\ OpenedResume(t)]_vars
    /\ [][\A cs \in ClientInputs : RestoreWhileConnecting(cs) => clients' = cs]_vars
    /\ Overlapped ~> (ConnectedToClients \/ nes = MaxES)

\* the second call came while the first one was connecting for {s1}; the
\* Provider is Connected for {s1, s2}, the subscription of the first call is
\* closed, the first call has ended and the watchdog is armed
C27_Witness ==
    /\ Overlapped
    /\ ConnectedToClients
    /\ tasks = {}
    /\ timers = 1
    /\ nes < MaxES
    /\ \E h1, h2 \in Handles :
          /\ es[h1].gen = 1 /\ es[h1].client_id = <<"s1">> /\ ~IsLive(es[h1])
          /\ es[h2].gen = 2 /\ es[h2].client_id = <<"s1", "s2">> /\ es[h2].st = "open"

\* ------------------------------------------------------------- EventSource errors
\* One restoreConnection on a new Provider; the EventSource may fail before or
\* after it opened, at any time; a peer sends frames.
MaxInputsError == 3

InitError == InitProvider(FALSE, <<>>, MaxInputsError) /\ retry = NoRetry

NextError ==
    \/ \E cs \in ClientInputs : FirstRestore(cs)
    \/ ResumeSteps
    \/ \E h \in Handles : EsOpen(h)
    \/ \E h \in Handles : EsError(h)
    \/ \E h \in Handles : Deliver(h)
    \/ Send("a1", "s1")

\* microtasks and retry timers run, and the relay accepts: an EventSource that
\* stays connecting opens
SpecError ==
    /\ InitError
    /\ [][NextError]_vars
    /\ WF_vars(ResumeSteps)
    /\ WF_vars(\E h \in Handles : EsOpen(h))

\* an EventSource of the Provider that had opened is no longer open
BrokenAfterOpen == \E h \in Handles : es[h].wasPreviouslyOpened /\ ~IsLive(es[h])

\* an EventSource of the Provider has failed before it opened
FailedBeforeOpen ==
    \E h \in Handles : es[h].st # "unused" /\ ~es[h].wasPreviouslyOpened /\ ~IsLive(es[h])

\* C28: an error of the Provider's subscription after it opened closes that
\* EventSource and creates no other in the same step; the Provider invokes
\* onConnecting and begins a reconnect; every EventSource the Provider creates
\* asks for the frames after the lastEventId the Provider has at that time; and
\* the Provider gets Connected again unless the run uses up the EventSource
\* instances of the model
C28_ErrorAfterOpenReconnects ==
    /\ [][\A h \in Handles :
            (EsError(h) /\ es[h].wasPreviouslyOpened)
               => /\ es'[h].st = "closed"
                  /\ nes' = nes
                  /\ \A k \in Handles : ~IsLive(es'[k])
                  /\ \E c \in called' : c.cb = "onConnecting" /\ c.gen = abortController
                  /\ \A c \in called' \ called : c.cb # "errorListener"
                  /\ \E t \in tasks' : t.kind = "errh" /\ t.pc = "closing"]_vars
    /\ [][\A h \in Handles :
            (es[h].st = "unused" /\ es'[h].st # "unused")
               => es'[h].last_event_id = lastEventId]_vars
    /\ BrokenAfterOpen ~> (Connected \/ nes = MaxES)

\* the subscription delivered frame 1 and failed; the Provider is Connected
\* again on a subscription that asked for the frames after 1
C28_Witness ==
    /\ BrokenAfterOpen
    /\ Connected
    /\ lastEventId = 1
    /\ \E h1, h2 \in Handles :
          /\ es[h1].wasPreviouslyOpened /\ es[h1].st = "closed" /\ es[h1].got = <<1>>
          /\ es[h2].st = "open" /\ es[h2].last_event_id = 1 /\ es[h2].gw = gateway

\* C29: an error of an EventSource that has not opened closes it and rejects its
\* registration; no callback is invoked; the connection loop that awaited the
\* registration sleeps before its next attempt; and the Provider gets Connected
\* unless the run uses up the EventSource instances of the model
C29_ErrorBeforeOpenRetries ==
    /\ [][\A h \in Handles :
            (EsError(h) /\ ~es[h].wasPreviouslyOpened)
               => /\ ~IsLive(es'[h])
                  /\ es'[h].promise = "rejected"
                  /\ called' = called
                  /\ nes' = nes
                  /\ \A t \in tasks :
                        (t.pc = "registering" /\ t.h = h)
                           => \E u \in tasks' : u.id = t.id /\ u.pc = "sleeping"]_vars
    /\ [](\A h \in Handles :
            (es[h].st # "unused" /\ es[h].promise = "pending" /\ IsLive(es[h]))
               => \E t \in tasks : t.pc = "registering" /\ t.h = h)
    /\ FailedBeforeOpen ~> (Connected \/ nes = MaxES)

\* the first attempt failed before it opened; the second one, made by the same
\* call, has opened: Connected, and no callback but onConnecting was invoked
C29_Witness ==
    /\ FailedBeforeOpen
    /\ Connected
    /\ nes = 2
    /\ ~BrokenAfterOpen
    /\ \A c \in called : c.cb = "onConnecting"

\* C31: a tick of the watchdog that ends its grace delay with the heartbeat
\* still missing calls reconnect only if the generation under which the tick
\* began is still the current one
C31_CancelledWatchdogIsSilent ==
    [][\A t \in tasks :
          (GraceWake(t) /\ missed' = missed + 1) => t.since = ngen]_vars

\* C32: when the reconnect a tick of the watchdog began has opened its
\* subscription and returned, the time of the last heartbeat is the present: the
\* interval is no longer exceeded
C32_WatchdogReconnectResetsClock ==
    [][\A t \in tasks :
          (OpenedResume(t) /\ t.kind = "wd" /\ CreateResumeKeeps(gws, es[t.h].gw, t.h))
             => ~stale']_vars

\* C33: a tick that ends its grace delay after a heartbeat was handled (the time
\* since the last heartbeat is within the interval) begins no reconnect: it
\* closes and creates nothing and ends; it, and every check that finds the
\* elapsed time under the interval, schedules the next check at half the
\* interval
C33_RecoveredHeartbeatReschedules ==
    /\ [][\A t \in tasks :
            (GraceWake(t) /\ ~stale)
               => /\ missed' = missed
                  /\ <<es, gws, nes, ngw, gateway, called>>' = <<es, gws, nes, ngw, gateway, called>>
                  /\ tasks' = tasks \ {t}
                  /\ heartbeatTimer'
                  /\ timers' = timers + 1
                  /\ nextTickDelay' = "interval / 2"]_vars
    /\ [][\A ref \in BOOLEAN :
            (HeartbeatTick(ref) /\ ~stale)
               => /\ tasks' = tasks
                  /\ heartbeatTimer'
                  /\ timers' = timers
                  /\ nextTickDelay' = "interval / 2"]_vars
    /\ [](nextTickDelay = "none" => (timers = 0 /\ ~heartbeatTimer))

\* the interval was reached and the tick went into its grace delay; a heartbeat
\* came, and the tick has scheduled the next check at half the interval without
\* a reconnect: the first subscription is still the open one
C33_Witness ==
    /\ nextTickDelay = "interval / 2"
    /\ heartbeatTimer
    /\ timers = 1
    /\ ~stale
    /\ missed = 0
    /\ tasks = {}
    /\ nes = 1
    /\ ngen = 1
    /\ Connected

\* ------------------------------------------------------------- the caller's signal
\* One restoreConnection(clients, {signal}) on a Provider with the watchdog: the
\* generation and the watchdog's controller are both children of the caller's
\* signal.
MaxInputsSignal == 2

\* the caller aborts the signal it gave restoreConnection: the generation made
\* from it and the watchdog's signal fire, every EventSource created under them
\* is closed, and a grace delay of the watchdog rejects (the tick ends there)
OuterSignalAborts ==
    /\ ~Busy
    /\ abortController # Null
    /\ OuterSignal \notin aborted
    /\ aborted' = aborted \cup {OuterSignal, abortController}
    /\ es' = AbortGeneration(AbortGeneration(es, abortController), OuterSignal)
    /\ tasks' = AfterReject({t \in tasks : ~(t.pc = "grace" /\ t.sig = OuterSignal)}, es')
    /\ UNCHANGED <<runVars, retry, missed, relayVars, nes, ngw, gws, heard, called, ncalls, clients,
                   lastEventId, abortController, ngen, gateway, closedUpTo, closedAt, watchdogVars>>

InitSignal ==
    /\ InitProvider(TRUE, <<Frame(1, "a1", "s1", Encrypt(MessageNo(1), "a1", "s1"))>>,
                    MaxInputsSignal)
    /\ retry = NoRetry

NextSignal ==
    \/ \E cs \in ClientInputs : FirstRestore(cs)
    \/ OuterSignalAborts
    \/ ResumeSteps
    \/ \E h \in Handles : EsOpen(h)
    \/ \E h \in Handles : EsError(h)
    \/ \E ref \in BOOLEAN : HeartbeatTickOf(ref, OuterSignal)
    \/ \E t \in tasks : GraceWake(t)
    \/ TimePasses
    \/ \E h \in Handles : Heartbeat(h)

SpecSignal == InitSignal /\ [][NextSignal]_vars

\* C34: a connection loop that wakes from its sleep with its signal aborted, and
\* so ends, invokes no errorListener
C34_CancellationIsSilent ==
    [][\A t \in tasks :
          (RetryWake(t) /\ SignalAborted(t.sig))
             => \A c \in called' \ called : c.cb # "errorListener"]_vars

\* ------------------------------------------------------------- racing creations
\* create() of ES h was overtaken: another create() of the same cell ran after
\* h's factory had resolved and before h's create() resumed
Superseded(t) ==
    /\ t.pc = "opened"
    /\ gws[es[t.h].gw].currentPromise # t.h
    /\ gws[es[t.h].gw].currentResource # t.h

\* C35: a create() that resumes after a later create() of the same cell disposes
\* the instance its factory gave it, does not install it and ends by throwing;
\* and whenever a cell gets a new current resource, it is the result of the
\* latest create() of that cell
C35_SupersededCreateIsDropped ==
    /\ [][\A t \in tasks :
             (OpenedResume(t) /\ Superseded(t))
                => /\ es'[t.h].st = "closed"
                   /\ gws'[es[t.h].gw].currentResource = gws[es[t.h].gw].currentResource
                   /\ gws'[es[t.h].gw].currentPromise = gws[es[t.h].gw].currentPromise
                   /\ \A u \in tasks' : u.id # t.id]_vars
    /\ [][\A g \in Handles :
             (gws'[g].currentResource # gws[g].currentResource /\ gws'[g].currentResource # Null)
                => gws'[g].currentResource = gws'[g].currentPromise]_vars

\* open, registerSession, and a second registerSession between the open of the
\* first one's EventSource and the resumption of its create(): EventSource 2 was
\* given by its factory and never became current
C35_Witness ==
    /\ ncalls = 3 /\ ngw = 1 /\ nes = 3
    /\ gws[1].disposed = "no"
    /\ es[2].promise = "resolved" /\ es[2].st = "closed"
    /\ gws[1].currentResource = 1 /\ gws[1].currentPromise = 3
    /\ \A t \in tasks : t.h # 2

\* ------------------------------------------------------------- dispose
\* C36: a dispose() of a gateway's cell leaves current() null, the resource that
\* was current and the EventSource of the creation that was in flight closed
\* (that creation rejected, so that the `await promise` of dispose() ends), and
\* every registration that waited for it ended; a dispose() of a cell that has
\* neither resource nor promise changes nothing
C36_DisposeClosesAll ==
    /\ [][\A g \in Handles :
             GwClose(g)
                => /\ Current(gws', g) = Null
                   /\ gws'[g].currentPromise = Null
                   /\ \A h \in {gws[g].currentResource, gws[g].currentPromise} \ {Null} :
                         /\ ~IsLive(es'[h])
                         /\ es'[h].promise # "pending"
                   /\ \A t \in tasks' : ~(t.pc = "registering" /\ es[t.h].gw = g)]_vars
    /\ [][\A g \in Handles :
             (GwClose(g) /\ gws[g].currentResource = Null /\ gws[g].currentPromise = Null)
                => /\ es' = es
                   /\ tasks' = tasks
                   /\ gws' = [gws EXCEPT ![g].disposed = "yes"]]_vars

\* a gateway opened and then closed twice
C36_Witness ==
    /\ ncalls = 3 /\ ngw = 1 /\ nes = 1
    /\ gws[1].disposed = "yes"
    /\ es[1].promise = "resolved" /\ es[1].st = "closed"
    /\ Current(gws, 1) = Null

\* ------------------------------------------------------------- updateClients
\* updateClients(cs) that finds another set of session ids and has clients to
\* connect
ChangesClients(cs) ==
    /\ UpdateClients(cs)
    /\ cs # <<>>
    /\ ~equalsDistinct(SessionIdsOf(clients), SessionIdsOf(cs))

\* C37: an updateClients that changes the client set leaves the Provider's
\* lastEventId as it was, so that the subscription it opens resumes from there
C37_UpdateClientsKeepsResumePosition ==
    [][\A cs \in UpdateInputs : ChangesClients(cs) => lastEventId' = lastEventId]_vars

\* clients with the session ids of ClientInputs under other clientIds
RemappedClients == {<<Client("s1", "a2")>>, <<Client("s1", "a2"), Client("s2", "a1")>>}

MaxInputsClients == 3

InitClients ==
    /\ InitProvider(FALSE, <<>>, MaxInputsClients)
    /\ retry = NoRetry

NextClients ==
    \/ \E cs \in ClientInputs : FirstRestore(cs)
    \/ \E cs \in UpdateInputs \cup RemappedClients : UpdateClients(cs)
    \/ ResumeSteps
    \/ \E h \in Handles : EsOpen(h)
    \/ \E h \in Handles : EsError(h)

SpecClients == InitClients /\ [][NextClients]_vars

\* C38: after an updateClients(cs) the Provider finds the session of every
\* client of cs by its clientId
C38_UpdateClientsStoresClients ==
    [][\A cs \in UpdateInputs \cup RemappedClients :
          UpdateClients(cs)
             => \A i \in 1..Len(cs) : getCryptoSession(cs[i].clientId)' = cs[i].sessionId]_vars

\* ------------------------------------------------------------- concurrent reconnects
\* Two reconnect loops of one connected Provider, followed from timer to timer:
\* what a loop does between two awaits of a timer or of an EventSource is one
\* step, because closeGateway and the rejection of an aborted registration take
\* microtasks only.  loops.gateway names who made this.gateway ("restore" or a
\* loop), loops.open tells whether its EventSource has opened, pc[l] is "idle"
\* (not begun), "registering" (inside `await gateway.registerSession`), "asleep"
\* (inside `await delay(delayMs)` of callForSuccess) or "done", i[l] counts the
\* delays of the loop's callForSuccess that have ended, up to MaxWakes, and
\* from[l] tells what began the loop.  exponential is the
\* option of that name: with it the delay of a loop that has slept OpensWithin
\* times is longer than a connection takes to open; without it the delay stays
\* delayMs, and the runs are those of a delayMs shorter than that time.
MaxWakes == 3
OpensWithin == 2

exceptLoops == <<maxInputs, collector, retry, missed, relayVars, es, nes, ngw, gws, tasks, heard,
                 called, ncalls, providerVars>>

\* the loop that made this.gateway is waiting for it to open
Registering(l) == loops.gateway = l /\ ~loops.open

\* closeGateway() and openGateway() of loop l: the gateway that exists is closed,
\* which rejects the registration of the loop that waits for it (callForSuccess
\* catches that and sleeps), and l registers a gateway of its own
Reopen(l, pc) ==
    [loops EXCEPT !.gateway = l, !.open = FALSE,
                  !.pc = [k \in LoopNames |->
                             IF k = l THEN "registering"
                             ELSE IF Registering(k) THEN "asleep" ELSE pc[k]]]

\* an error event of the EventSource of this.gateway: the gateway is closed, so
\* gatewayErrorsListener begins a reconnect, loop l
ErrorStarts(l) ==
    /\ loops.pc[l] = "idle"
    /\ loops' = [Reopen(l, loops.pc) EXCEPT !.from[l] = "error"]
    /\ UNCHANGED exceptLoops

\* the watchdog finds the heartbeat missing after its grace delay and begins a
\* reconnect, loop l
WatchdogStarts(l) ==
    /\ loops.pc[l] = "idle"
    /\ \A k \in LoopNames : loops.from[k] # "watchdog"
    /\ loops' = [Reopen(l, loops.pc) EXCEPT !.from[l] = "watchdog"]
    /\ UNCHANGED exceptLoops

\* `await delay(delayMs)` of loop l ends: the next attempt.  A delay that is
\* longer than a connection takes does not end while a connection made after
\* it began is still opening.
Wake(l) ==
    /\ loops.pc[l] = "asleep"
    /\ (loops.exponential /\ loops.i[l] >= OpensWithin) => loops.open
    /\ loops' = [Reopen(l, loops.pc) EXCEPT !.i[l] = IF @ < MaxWakes THEN @ + 1 ELSE @]
    /\ UNCHANGED exceptLoops

\* the relay accepts the connection of loop l: registerSession resolves, the
\* loop's callForSuccess and reconnect return
LoopOpens(l) ==
    /\ Registering(l)
    /\ loops' = [loops EXCEPT !.open = TRUE, !.pc[l] = "done"]
    /\ UNCHANGED exceptLoops

InitLoops ==
    /\ InitConnection(TRUE, <<>>, 0)
    /\ retry = NoRetry
    /\ collector = NoCollector
    /\ \E exponential \in BOOLEAN : loops = [NoLoops EXCEPT !.exponential = exponential]

NextLoops ==
    \/ \E l \in LoopNames : ErrorStarts(l)
    \/ \E l \in LoopNames : WatchdogStarts(l)
    \/ \E l \in LoopNames : Wake(l)
    \/ \E l \in LoopNames : LoopOpens(l)

\* timers fire, and the relay accepts: a connection that stays opening opens
SpecLoops ==
    /\ InitLoops
    /\ [][NextLoops]_vars
    /\ \A l \in LoopNames : WF_vars(Wake(l)) /\ WF_vars(LoopOpens(l))

MaxEvents == 4          \* emit() calls in one run
MaxBatchSize == 2       \* options.maxBatchSize
MaxFailures == 2        \* sends that fail in one run

exceptCollector == <<maxInputs, loops, retry, missed, relayVars, es, nes, ngw, gws, tasks, heard,
                     called, ncalls, providerVars>>

\* a failed batch put behind what was emitted meanwhile
RequeueBehind(eventsToSend, events) == events \o eventsToSend

\* `this.events.unshift(...eventsToSend)`
Requeue(eventsToSend, events) == eventsToSend \o events

\* startTimeout()
startTimeout(c) ==
    IF c.timeoutId \/ c.isProcessing THEN c
    ELSE [c EXCEPT !.timeoutId = TRUE, !.timer = TRUE]

\* flush() up to `await this.sendEvents(eventsToSend)`
flush(c) ==
    IF c.isProcessing \/ c.events = <<>> THEN c
    ELSE [c EXCEPT !.timeoutId = FALSE, !.timer = FALSE, !.isProcessing = TRUE,
                   !.eventsToSend = c.events, !.events = <<>>]

\* emit(event)
Emit ==
    LET c == [collector EXCEPT !.emitted = @ + 1, !.events = Append(@, collector.emitted + 1)]
    IN /\ collector.emitted < MaxEvents
       /\ collector' = IF Len(c.events) >= MaxBatchSize THEN flush(c) ELSE startTimeout(c)
       /\ UNCHANGED exceptCollector

\* the timer of startTimeout fires: `void this.flush()`
TimerFires ==
    /\ collector.timer
    /\ collector' = flush([collector EXCEPT !.timer = FALSE])
    /\ UNCHANGED exceptCollector

\* flush() after its await: the finally block, after the catch if the send failed
flushFinally(c) ==
    LET d == [c EXCEPT !.isProcessing = FALSE, !.eventsToSend = <<>>]
    IN IF Len(d.events) > 0 THEN startTimeout(d) ELSE d

\* sendEvents resolved
SendOk ==
    /\ collector.isProcessing
    /\ collector' = flushFinally([collector EXCEPT !.sent = Append(@, collector.eventsToSend)])
    /\ UNCHANGED exceptCollector

\* sendEvents rejected: fetch failed or the response was not ok
SendFails ==
    /\ collector.isProcessing
    /\ collector.failures < MaxFailures
    /\ LET c == flushFinally([collector EXCEPT
                                 !.failures = @ + 1,
                                 !.events = Requeue(collector.eventsToSend, @)])
       IN collector' = c
    /\ UNCHANGED exceptCollector

InitCollector ==
    /\ InitConnection(FALSE, <<>>, 0)
    /\ retry = NoRetry
    /\ loops = NoLoops
    /\ collector = NoCollector

NextCollector ==
    \/ Emit
    \/ TimerFires
    \/ SendOk
    \/ SendFails

\* timers fire, and a send ends: with an answer, once the failures of the run
\* are used up
SpecCollector ==
    /\ InitCollector
    /\ [][NextCollector]_vars
    /\ WF_vars(TimerFires)
    /\ WF_vars(SendOk)

RECURSIVE Flatten(_)
Flatten(batches) ==
    IF batches = <<>> THEN <<>> ELSE Head(batches) \o Flatten(Tail(batches))

\* C40: the batches sent, the batch being sent and the events waiting are, in
\* this order, the events emitted so far in the order of their emission, each
\* once; events that wait are waited for by a timer or a send in flight; and
\* again and again everything emitted has been sent
C40_EveryEventSentOnceInOrder ==
    /\ [](Flatten(collector.sent) \o collector.eventsToSend \o collector.events
             = [k \in 1..collector.emitted |-> k])
    /\ [](collector.timeoutId = collector.timer)
    /\ [](collector.events # <<>> => (collector.timer \/ collector.isProcessing))
    /\ []<>(Flatten(collector.sent) = [k \in 1..collector.emitted |-> k])

\* all events of the run sent, in more than one batch, after a failed send
C40_Witness ==
    /\ collector.failures >= 1
    /\ Len(collector.sent) >= 2
    /\ Flatten(collector.sent) = [k \in 1..MaxEvents |-> k]

====
